---- MODULE Spec2Model ----
(***************************************************************************)
(* Event-driven execution core of the ECEN 2370 Pearl Gecko firmware:      *)
(* the sleep arbiter (sleep_routines.c), the event scheduler               *)
(* (scheduler.c), the I2C bus transaction state machine (i2c.c), the       *)
(* LEUART transmit state machine (leuart.c) and the BLE ring buffer        *)
(* (ble.c).                                                                *)
(*                                                                         *)
(* EFM_ASSERT is modelled as built with DEBUG_EFM: a failed assertion      *)
(* halts the program (fatal = TRUE) at the point where it fails, so the    *)
(* statements before it have taken effect and those after it have not.     *)
(*                                                                         *)
(* Every C function is an operator from a program state (a record of all   *)
(* the variables) to the program state it leaves; an action commits the    *)
(* result of one entry point (an API call or an interrupt handler).        *)
(***************************************************************************)
EXTENDS Integers, Sequences, FiniteSets, TLC

VARIABLES
  fatal,                \* an EFM_ASSERT failed: the program is halted
  op,                   \* the entry point that ran last
  lowest_energy_mode,   \* sleep_routines.c: static int lowest_energy_mode[]
  entered_em,           \* the mode the last enter_sleep() entered (-1: none yet)
  event_scheduled,      \* scheduler.c: static unsigned int event_scheduled
  i2c_state,            \* i2c.c: i2c_peripheral_state.state
  i2c_sm_busy,          \* i2c.c: i2c_peripheral_state.sm_busy
  i2c_read,             \* i2c.c: i2c_peripheral_state.read
  i2c_hw_idle,          \* I2Cn->STATE reads I2C_STATE_STATE_IDLE
  scheduled_read_cb,    \* i2c.c: static uint32_t scheduled_read_cb
  read_value,           \* *i2c_peripheral_state.read_value
  i2c_trace,            \* interrupts the handlers took since the last i2c_start
  i2c_em2_pre,          \* lowest_energy_mode[EM2] when the last i2c_start was called
  i2c_posts,            \* add_scheduled_event calls of i2c.c since the last i2c_start
  i2c_unblocks,         \* sleep_unblock_mode calls of i2c.c since the last i2c_start
  i2c_bus,              \* CMD and TXDATA writes of i2c.c since the last i2c_start
  i2c_rx,               \* bytes the handlers read from RXDATA since the last i2c_start
  sm_state,             \* leuart.c: sm.state
  sm_busy,              \* leuart.c: sm.sm_busy
  sm_count,             \* leuart.c: sm.count
  sm_str_length,        \* leuart.c: sm.str_length
  sm_output,            \* leuart.c: sm.output[], as a function on 0..OUTPUT_SIZE-1
  leuart_ien,           \* LEUART0->IEN, the set of enabled interrupts
  tx_log,               \* bytes written to LEUART0->TXDATA since the last leuart_start
  tx_ops,               \* IEN/IFS writes of the handlers since the last leuart_start
  le_em_pre,            \* lowest_energy_mode[LEUART_TX_EM] at the last leuart_start
  le_posts,             \* add_scheduled_event calls of leuart.c since the last leuart_start
  le_unblocks,          \* sleep_unblock_mode calls of leuart.c since the last leuart_start
  cbuf,                 \* ble.c: ble_cbuf.cbuf[], as a function on 0..CSIZE-1
  read_ptr,             \* ble.c: ble_cbuf.read_ptr
  write_ptr,            \* ble.c: ble_cbuf.write_ptr
  result_str,           \* ble.c: test_struct.result_str, up to its first 0
  pop_ret,              \* what the last ble_circ_pop returned
  queued,               \* the messages pushed and not yet popped, oldest first
  pushes,               \* ble_circ_push calls so far
  cb_event,             \* app.c: the event whose scheduled_*_cb handler ran last
  cb_pc,                \* where that handler stands: none, asserted, cleared
  pending_posts,        \* add_scheduled_event calls per event since its last clear
  accepted,             \* the strings ble_write returned from, oldest first
  transmitted,          \* TXDATA bytes of each completed transmission, oldest first
  push_pc,              \* ble_circ_push in progress: bytes written so far (-1: none)
  push_str,             \* ble_circ_push in progress: its string
  push_base,            \* ble_circ_push in progress: cbuf[] when it was entered
  irq_masked,           \* PRIMASK: CORE_ENTER_CRITICAL has masked the interrupts
  main_pc,              \* where the main-loop call in progress stands (idle: none)
  main_op,              \* the main-loop call in progress: its function, its argument
                        \* and whether an interrupt was served since it was called
  main_reg              \* the value that call has loaded into a register

vars == <<fatal, op, lowest_energy_mode, entered_em, event_scheduled,
          i2c_state, i2c_sm_busy, i2c_read, i2c_hw_idle, scheduled_read_cb,
          read_value, i2c_trace, i2c_em2_pre, i2c_posts, i2c_unblocks, i2c_bus,
          i2c_rx,
          sm_state, sm_busy, sm_count, sm_str_length, sm_output, leuart_ien,
          tx_log, tx_ops, le_em_pre, le_posts, le_unblocks,
          cbuf, read_ptr, write_ptr, result_str, pop_ret, queued, pushes,
          cb_event, cb_pc, pending_posts, accepted, transmitted,
          push_pc, push_str, push_base,
          irq_masked, main_pc, main_op, main_reg>>

----------------------------------------------------------------------------
(* Bounds of the model *)

\* event ids are single bits of a mask of this many bits (uint32_t in the code)
EventBits == 3
\* interrupts one bus transaction is followed through
MaxTrace == 6
\* longest string handed to leuart_start directly
MaxStr == 3
\* ble_circ_push calls one run is followed through
MaxPush == 3
\* posts of one event that are followed between two clears of it
MaxPosts == 2

\* NACKs of the read request one bus transaction is followed through
MaxRetry == 2
\* log2 of the ring buffer's capacity (CSIZE is a power of two)
CSizeBits == 3

----------------------------------------------------------------------------
(* Program constants *)

MAX_ENERGY_MODES == 5
EM0 == 0
EM1 == 1
EM2 == 2
EM3 == 3
EM4 == 4
LEUART_TX_EM == EM3
BLOCK_LIMIT == 5
OUTPUT_SIZE == 80
CSIZE == 2 ^ CSizeBits

Modes == 0 .. (MAX_ENERGY_MODES - 1)
Events == {2 ^ b : b \in 0 .. (EventBits - 1)}
EventMask == 0 .. (2 ^ EventBits - 1)

----------------------------------------------------------------------------
(* The program state as a record, and the action that commits one *)

Cur ==
  [fatal |-> fatal, op |-> op, lowest_energy_mode |-> lowest_energy_mode,
   entered_em |-> entered_em, event_scheduled |-> event_scheduled,
   i2c_state |-> i2c_state, i2c_sm_busy |-> i2c_sm_busy, i2c_read |-> i2c_read,
   i2c_hw_idle |-> i2c_hw_idle, scheduled_read_cb |-> scheduled_read_cb,
   read_value |-> read_value, i2c_trace |-> i2c_trace,
   i2c_em2_pre |-> i2c_em2_pre, i2c_posts |-> i2c_posts,
   i2c_unblocks |-> i2c_unblocks,
   i2c_bus |-> i2c_bus,
   i2c_rx |-> i2c_rx,
   sm_state |-> sm_state, sm_busy |-> sm_busy, sm_count |-> sm_count,
   sm_str_length |-> sm_str_length, sm_output |-> sm_output,
   leuart_ien |-> leuart_ien, tx_log |-> tx_log, tx_ops |-> tx_ops,
   le_em_pre |-> le_em_pre, le_posts |-> le_posts, le_unblocks |-> le_unblocks,
   cbuf |-> cbuf, read_ptr |-> read_ptr, write_ptr |-> write_ptr,
   result_str |-> result_str, pop_ret |-> pop_ret, queued |-> queued,
   pushes |-> pushes, cb_event |-> cb_event, cb_pc |-> cb_pc,
   pending_posts |-> pending_posts,
   accepted |-> accepted,
   transmitted |-> transmitted,
   push_pc |-> push_pc,
   push_str |-> push_str,
   push_base |-> push_base,
   irq_masked |-> irq_masked,
   main_pc |-> main_pc,
   main_op |-> main_op,
   main_reg |-> main_reg]

Commit(s) ==
  /\ fatal' = s.fatal
  /\ op' = s.op
  /\ lowest_energy_mode' = s.lowest_energy_mode
  /\ entered_em' = s.entered_em
  /\ event_scheduled' = s.event_scheduled
  /\ i2c_state' = s.i2c_state
  /\ i2c_sm_busy' = s.i2c_sm_busy
  /\ i2c_read' = s.i2c_read
  /\ i2c_hw_idle' = s.i2c_hw_idle
  /\ scheduled_read_cb' = s.scheduled_read_cb
  /\ read_value' = s.read_value
  /\ i2c_trace' = s.i2c_trace
  /\ i2c_em2_pre' = s.i2c_em2_pre
  /\ i2c_posts' = s.i2c_posts
  /\ i2c_unblocks' = s.i2c_unblocks
  /\ i2c_bus' = s.i2c_bus
  /\ i2c_rx' = s.i2c_rx
  /\ sm_state' = s.sm_state
  /\ sm_busy' = s.sm_busy
  /\ sm_count' = s.sm_count
  /\ sm_str_length' = s.sm_str_length
  /\ sm_output' = s.sm_output
  /\ leuart_ien' = s.leuart_ien
  /\ tx_log' = s.tx_log
  /\ tx_ops' = s.tx_ops
  /\ le_em_pre' = s.le_em_pre
  /\ le_posts' = s.le_posts
  /\ le_unblocks' = s.le_unblocks
  /\ cbuf' = s.cbuf
  /\ read_ptr' = s.read_ptr
  /\ write_ptr' = s.write_ptr
  /\ result_str' = s.result_str
  /\ pop_ret' = s.pop_ret
  /\ queued' = s.queued
  /\ pushes' = s.pushes
  /\ cb_event' = s.cb_event
  /\ cb_pc' = s.cb_pc
  /\ pending_posts' = s.pending_posts
  /\ accepted' = s.accepted
  /\ transmitted' = s.transmitted
  /\ push_pc' = s.push_pc
  /\ push_str' = s.push_str
  /\ push_base' = s.push_base
  /\ irq_masked' = s.irq_masked
  /\ main_pc' = s.main_pc
  /\ main_op' = s.main_op
  /\ main_reg' = s.main_reg

\* EFM_ASSERT(cond) reached in state s
EFM_ASSERT(s, cond) == IF cond THEN s ELSE [s EXCEPT !.fatal = TRUE]

\* statement sequencing: F runs only if the program has not halted
Then(s, F(_)) == IF s.fatal THEN s ELSE F(s)

----------------------------------------------------------------------------
(* sleep_routines.c *)

sleep_open(s) ==
  [s EXCEPT !.lowest_energy_mode = [i \in Modes |-> 0]]

\* a variant of sleep_unblock_mode without its assertion
UnblockUnchecked(s, EM) == [s EXCEPT !.lowest_energy_mode[EM] = @ - 1]

\* a variant of sleep_block_mode that accepts one hold more
BlockOneMore(s, EM) ==
  LET t == [s EXCEPT !.lowest_energy_mode[EM] = @ + 1]
  IN  EFM_ASSERT(t, t.lowest_energy_mode[EM] <= BLOCK_LIMIT)

sleep_unblock_mode(s, EM) ==
  LET t == [s EXCEPT !.lowest_energy_mode[EM] = @ - 1]
  IN  EFM_ASSERT(t, t.lowest_energy_mode[EM] >= 0)

sleep_block_mode(s, EM) ==
  LET t == [s EXCEPT !.lowest_energy_mode[EM] = @ + 1]
  IN  EFM_ASSERT(t, t.lowest_energy_mode[EM] < BLOCK_LIMIT)

\* a variant of the chain that enters the first held mode itself
EnteredHeldMode(lem) ==
  IF lem[EM0] > 0 THEN EM0
  ELSE IF lem[EM1] > 0 THEN EM1
  ELSE IF lem[EM2] > 0 THEN EM2
  ELSE IF lem[EM3] > 0 THEN EM3
  ELSE EM4

\* the mode the if/else chain of enter_sleep enters; EM0 stands for the two
\* branches that enter no sleep mode at all
EnteredMode(lem) ==
  IF lem[EM0] > 0 THEN EM0
  ELSE IF lem[EM1] > 0 THEN EM0
  ELSE IF lem[EM2] > 0 THEN EM1
  ELSE IF lem[EM3] > 0 THEN EM2
  ELSE EM3

enter_sleep(s) ==
  [s EXCEPT !.entered_em = EnteredMode(s.lowest_energy_mode)]

RECURSIVE BlockScan(_, _)
\* the for loop of current_block_energy_mode, from index i on
BlockScan(lem, i) ==
  IF i >= MAX_ENERGY_MODES THEN MAX_ENERGY_MODES - 1
  ELSE IF lem[i] # 0 THEN i
  ELSE BlockScan(lem, i + 1)

RECURSIVE BlockScanDown(_, _)
\* a variant of the loop that scans from the deepest mode down
BlockScanDown(lem, i) ==
  IF i < 0 THEN MAX_ENERGY_MODES - 1
  ELSE IF lem[i] # 0 THEN i
  ELSE BlockScanDown(lem, i - 1)

DeepestHeldMode(lem) == BlockScanDown(lem, MAX_ENERGY_MODES - 1)

current_block_energy_mode(lem) == BlockScan(lem, 0)

----------------------------------------------------------------------------
(* scheduler.c: event_scheduled is a bit mask, events are masks *)

RECURSIVE BitAnd(_, _)
BitAnd(a, b) ==
  IF a = 0 \/ b = 0 THEN 0
  ELSE (a % 2) * (b % 2) + 2 * BitAnd(a \div 2, b \div 2)

\* a | b
BitOr(a, b) == a + b - BitAnd(a, b)

\* a & ~b
BitClear(a, b) == a - BitAnd(a, b)

scheduler_open(s) ==
  [s EXCEPT !.event_scheduled = BitClear(@, @)]

\* a variant of add_scheduled_event that toggles the bit
AddByToggle(s, event) ==
  [s EXCEPT !.event_scheduled =
              IF BitAnd(@, event) = event THEN @ - event ELSE @ + event]

add_scheduled_event(s, event) ==
  [s EXCEPT !.event_scheduled = BitOr(@, event)]

remove_scheduled_event(s, event) ==
  [s EXCEPT !.event_scheduled = BitClear(@, event)]

get_scheduled_events(s) == s.event_scheduled

----------------------------------------------------------------------------
(* scheduler.c and sleep_routines.c statement by statement, as the main     *)
(* loop executes them while interrupts may be served in between             *)

\* a variant of CORE_ENTER_CRITICAL that leaves the interrupts unmasked
EnterWithoutMasking(s) == s

\* CORE_DECLARE_IRQ_STATE; CORE_ENTER_CRITICAL()
CORE_ENTER_CRITICAL(s) == [s EXCEPT !.irq_masked = TRUE]

\* CORE_EXIT_CRITICAL(): the caller was entered with interrupts unmasked
CORE_EXIT_CRITICAL(s) == [s EXCEPT !.irq_masked = FALSE]

\* the functions whose body is one read-modify-write in a critical section
RmwFunctions ==
  {"add_scheduled_event", "remove_scheduled_event",
   "sleep_block_mode", "sleep_unblock_mode"}

\* the function is called from the main loop
main_call(s, fn, arg) ==
  [s EXCEPT !.main_pc = "called",
            !.main_op = [fn |-> fn, arg |-> arg, preempted |-> FALSE]]

\* the load of  x |= e,  x &= ~e,  x++  or  x--
RmwLoad(s) ==
  [s EXCEPT !.main_reg =
     IF s.main_op.fn \in {"add_scheduled_event", "remove_scheduled_event"}
     THEN s.event_scheduled
     ELSE s.lowest_energy_mode[s.main_op.arg],
            !.main_pc = "loaded"]

\* the store of the same statement, and the EFM_ASSERT that follows it
RmwStore(s) ==
  LET fn == s.main_op.fn
      arg == s.main_op.arg
      n == [s EXCEPT !.main_pc = "stored"]
  IN  CASE fn = "add_scheduled_event" ->
             [n EXCEPT !.event_scheduled = BitOr(s.main_reg, arg)]
        [] fn = "remove_scheduled_event" ->
             [n EXCEPT !.event_scheduled = BitClear(s.main_reg, arg)]
        [] fn = "sleep_block_mode" ->
             LET u == [n EXCEPT !.lowest_energy_mode[arg] = s.main_reg + 1]
             IN  EFM_ASSERT(u, u.lowest_energy_mode[arg] < BLOCK_LIMIT)
        [] fn = "sleep_unblock_mode" ->
             LET u == [n EXCEPT !.lowest_energy_mode[arg] = s.main_reg - 1]
             IN  EFM_ASSERT(u, u.lowest_energy_mode[arg] >= 0)

\* the function returns
main_return(s) ==
  [s EXCEPT !.main_pc = "idle",
            !.main_op = [fn |-> "none", arg |-> 0, preempted |-> FALSE],
            !.main_reg = 0]

\* a variant of enter_sleep that leaves the critical section once the mode is
\* decided, before the EMU_Enter call
SleepStepExitingFirst(s) ==
  CASE s.main_pc = "called" ->
         [CORE_ENTER_CRITICAL(s) EXCEPT !.main_pc = "critical"]
    [] s.main_pc = "critical" ->
         [CORE_EXIT_CRITICAL(s) EXCEPT
            !.main_reg = EnteredMode(s.lowest_energy_mode),
            !.main_pc = "decided"]
    [] s.main_pc = "decided" ->
         [s EXCEPT !.entered_em = s.main_reg, !.main_pc = "slept"]
    [] s.main_pc = "slept" -> main_return(s)

\* the next statement of enter_sleep: CORE_ENTER_CRITICAL, the if/else chain
\* over lowest_energy_mode[], the EMU_Enter call of the branch taken,
\* CORE_EXIT_CRITICAL and return
enter_sleep_step(s) ==
  CASE s.main_pc = "called" ->
         [CORE_ENTER_CRITICAL(s) EXCEPT !.main_pc = "critical"]
    [] s.main_pc = "critical" ->
         [s EXCEPT !.main_reg = EnteredMode(s.lowest_energy_mode),
                   !.main_pc = "decided"]
    [] s.main_pc = "decided" ->
         [s EXCEPT !.entered_em = s.main_reg, !.main_pc = "slept"]
    [] s.main_pc = "slept" -> main_return(CORE_EXIT_CRITICAL(s))

\* the next statement of add_scheduled_event, remove_scheduled_event,
\* sleep_block_mode or sleep_unblock_mode
rmw_step(s) ==
  CASE s.main_pc = "called" ->
         [CORE_ENTER_CRITICAL(s) EXCEPT !.main_pc = "critical"]
    [] s.main_pc = "critical" -> RmwLoad(s)
    [] s.main_pc = "loaded" -> RmwStore(s)
    [] s.main_pc = "stored" -> main_return(CORE_EXIT_CRITICAL(s))

main_step(s) ==
  IF s.main_op.fn = "enter_sleep" THEN enter_sleep_step(s) ELSE rmw_step(s)

----------------------------------------------------------------------------
(* app.c: the scheduled_*_cb event handlers. Those of LETIMER0_UF_CB,        *)
(* SI7021_READ_CB, BOOT_UP_CB, BLE_TX_DONE_CB and SI7021_RH_CB begin         *)
(*   EFM_ASSERT(EVT & get_scheduled_events()); remove_scheduled_event(EVT); *)
(* and then do the event's work; those of LETIMER0_COMP0_CB and             *)
(* LETIMER0_COMP1_CB are remove_scheduled_event(EVT); EFM_ASSERT(false).    *)
(* Interrupts are served between the steps.                                 *)

\* app.h
LETIMER0_COMP0_CB == 1
LETIMER0_COMP1_CB == 2

\* the events whose handler is scheduled_letimer0_comp0_cb or _comp1_cb
CompEvents == {LETIMER0_COMP0_CB, LETIMER0_COMP1_CB}

\* the events whose handler begins with the assertion on its own bit
CheckedEvents == Events \ CompEvents

\* a variant of the checked handlers' first statement that asserts nothing
CbAssertNothing(s, event) ==
  [s EXCEPT !.cb_event = event, !.cb_pc = "asserted"]

\* the handler of event is called: its assertion
scheduled_cb_assert(s, event) ==
  EFM_ASSERT([s EXCEPT !.cb_event = event, !.cb_pc = "asserted"],
             BitAnd(event, get_scheduled_events(s)) # 0)

\* its remove_scheduled_event(EVT)
scheduled_cb_remove(s) ==
  remove_scheduled_event([s EXCEPT !.cb_pc = "cleared",
                                   !.pending_posts[s.cb_event] = 0],
                         s.cb_event)

\* a variant of the handlers' tail that clears the event again on the way out
ReturnClearing(s) ==
  remove_scheduled_event([s EXCEPT !.cb_pc = "none"], s.cb_event)

\* the rest of its body, which touches no event bit, and its return
scheduled_cb_return(s) == [s EXCEPT !.cb_pc = "none"]

\* scheduled_letimer0_comp0_cb, scheduled_letimer0_comp1_cb: the handler of
\* event is called: its remove_scheduled_event(EVT)
scheduled_comp_cb_remove(s, event) ==
  remove_scheduled_event([s EXCEPT !.cb_event = event, !.cb_pc = "removed",
                                   !.pending_posts[event] = 0],
                         event)

\* its EFM_ASSERT(false)
scheduled_comp_cb_assert(s) == EFM_ASSERT(s, FALSE)

----------------------------------------------------------------------------
(* i2c.c: the bus transaction state machine *)

I2C_STATES ==
  {"start_comm", "send_cmd", "read_request", "read_ms_byte", "read_ls_byte",
   "stop_comm"}

\* the interrupts si7021_i2c_open enables, in the order the IRQ handler
\* tests them
I2C_FLAGS == <<"START", "ACK", "NACK", "MSTOP", "RXDATAV">>

I2C_IEN == {I2C_FLAGS[i] : i \in 1 .. Len(I2C_FLAGS)}

\* values the device puts in RXDATA
RxBytes == {1, 255}

\* a handler was entered on interrupt f
Took(s, f) == [s EXCEPT !.i2c_trace = Append(@, f)]

\* peripheral->CMD |= c, or peripheral->TXDATA |= c
BusWrite(s, c) == [s EXCEPT !.i2c_bus = Append(@, c)]

\* peripheral->TXDATA |= (device_address << 1 | read)
TxAddress(s) == BusWrite(s, IF s.i2c_read THEN "ADDR+R" ELSE "ADDR+W")

\* a variant of i2c_start that takes no EM2 hold
StartWithoutHold(s, callback) ==
  LET a == EFM_ASSERT(s, s.i2c_hw_idle)
      Body(b) ==
        [b EXCEPT !.i2c_read = FALSE,
                  !.scheduled_read_cb = callback,
                  !.i2c_state = "start_comm",
                  !.i2c_hw_idle = FALSE,
                  !.i2c_trace = <<>>,
                  !.i2c_em2_pre = s.lowest_energy_mode[EM2],
                  !.i2c_posts = 0,
                  !.i2c_unblocks = 0,
                  !.i2c_bus = <<"START", "ADDR+W">>,
                  !.i2c_rx = <<>>]
  IN  Then(a, Body)

i2c_start(s, callback) ==
  LET a == EFM_ASSERT(s, s.i2c_hw_idle)
      Body(b) ==
        TxAddress(BusWrite(
          [b EXCEPT !.i2c_read = FALSE,
                    !.scheduled_read_cb = callback,
                    !.i2c_state = "start_comm",
                    !.i2c_hw_idle = FALSE], "START"))
      Block(b) == sleep_block_mode(b, EM2)
      New(b) ==
        [b EXCEPT !.i2c_trace = <<>>,
                  !.i2c_em2_pre = s.lowest_energy_mode[EM2],
                  !.i2c_posts = 0,
                  !.i2c_unblocks = 0,
                  !.i2c_bus = <<>>,
                  !.i2c_rx = <<>>]
  IN  Then(Then(Then(a, New), Block), Body)

\* a variant of the start handler that ignores the interrupt in every state
StartInterruptIgnored(s) == s

i2c_start_interrupt(s) ==
  IF s.i2c_state = "stop_comm" THEN EFM_ASSERT(s, FALSE) ELSE s

\* a variant of the ACK handler that does not leave read_request
AckIgnoredInReadRequest(s) ==
  CASE s.i2c_state = "start_comm" ->
         LET a == [s EXCEPT !.i2c_sm_busy = TRUE, !.i2c_read = FALSE]
             b == BusWrite(BusWrite(a, "CLEARTX"), "COMMAND")
         IN  [b EXCEPT !.i2c_state = "send_cmd"]
    [] s.i2c_state = "send_cmd" ->
         LET a == BusWrite(BusWrite(s, "CLEARTX"), "START")
             b == TxAddress([a EXCEPT !.i2c_read = TRUE])
         IN  [b EXCEPT !.i2c_state = "read_request"]
    [] s.i2c_state = "read_request" -> s
    [] s.i2c_state = "read_ms_byte" -> s
    [] s.i2c_state = "read_ls_byte" -> s
    [] OTHER -> EFM_ASSERT(s, FALSE)

i2c_ack_interrupt(s) ==
  CASE s.i2c_state = "start_comm" ->
         LET a == [s EXCEPT !.i2c_sm_busy = TRUE, !.i2c_read = FALSE]
             b == BusWrite(BusWrite(a, "CLEARTX"), "COMMAND")
         IN  [b EXCEPT !.i2c_state = "send_cmd"]
    [] s.i2c_state = "send_cmd" ->
         LET a == BusWrite(BusWrite(s, "CLEARTX"), "START")
             b == TxAddress([a EXCEPT !.i2c_read = TRUE])
         IN  [b EXCEPT !.i2c_state = "read_request"]
    [] s.i2c_state = "read_request" ->
         [BusWrite(s, "CLEARTX") EXCEPT !.i2c_state = "read_ms_byte"]
    [] s.i2c_state = "read_ms_byte" -> s
    [] s.i2c_state = "read_ls_byte" -> s
    [] OTHER -> EFM_ASSERT(s, FALSE)

\* a variant of the NACK handler that gives up on a NACK of the read request
NackFatalInReadRequest(s) ==
  CASE s.i2c_state = "send_cmd" -> s
    [] OTHER -> EFM_ASSERT(s, FALSE)

i2c_nack_interrupt(s) ==
  CASE s.i2c_state = "send_cmd" -> s
    [] s.i2c_state = "read_request" ->
         LET a == [BusWrite(s, "CLEARTX") EXCEPT !.i2c_read = TRUE]
             b == TxAddress(BusWrite(a, "START"))
         IN  [b EXCEPT !.i2c_state = "read_request"]
    [] OTHER -> EFM_ASSERT(s, FALSE)

\* a variant of the stop-confirmed handler that keeps the EM2 hold
MstopKeepingHold(s) ==
  IF s.i2c_state = "stop_comm"
  THEN add_scheduled_event([s EXCEPT !.i2c_sm_busy = FALSE,
                                     !.i2c_posts = @ + 1],
                           s.scheduled_read_cb)
  ELSE EFM_ASSERT(s, FALSE)

i2c_mstop_interrupt(s) ==
  IF s.i2c_state = "stop_comm"
  THEN LET a == [s EXCEPT !.i2c_sm_busy = FALSE]
           Unblock(b) ==
             sleep_unblock_mode([b EXCEPT !.i2c_unblocks = @ + 1], EM2)
           Post(b) ==
             add_scheduled_event([b EXCEPT !.i2c_posts = @ + 1],
                                 b.scheduled_read_cb)
       IN  Then(Then(a, Unblock), Post)
  ELSE EFM_ASSERT(s, FALSE)

\* the handler reads peripheral->RXDATA
RxRead(s, rxdata) == [s EXCEPT !.i2c_rx = Append(@, rxdata)]

\* a variant of the RXDATAV handler that ORs the high byte into the destination
RxdatavOrIntoDestination(s, rxdata) ==
  CASE s.i2c_state = "read_ms_byte" ->
         LET a == [RxRead(BusWrite(s, "CLEARTX"), rxdata) EXCEPT
                     !.read_value = BitOr(@, rxdata * 256)]
         IN  [BusWrite(a, "ACK") EXCEPT !.i2c_state = "read_ls_byte"]
    [] s.i2c_state = "read_ls_byte" ->
         LET a == [RxRead(BusWrite(s, "CLEARTX"), rxdata) EXCEPT
                     !.read_value = BitOr(@, rxdata)]
         IN  [BusWrite(BusWrite(a, "NACK"), "STOP") EXCEPT
                !.i2c_state = "stop_comm"]
    [] OTHER -> EFM_ASSERT(s, FALSE)

\* a variant of the RXDATAV handler that ends the transaction itself when the
\* last byte has arrived
RxdatavEndingTransaction(s, rxdata) ==
  CASE s.i2c_state = "read_ms_byte" ->
         LET a == [RxRead(BusWrite(s, "CLEARTX"), rxdata) EXCEPT
                     !.read_value = rxdata * 256]
         IN  [BusWrite(a, "ACK") EXCEPT !.i2c_state = "read_ls_byte"]
    [] s.i2c_state = "read_ls_byte" ->
         LET a == [RxRead(BusWrite(s, "CLEARTX"), rxdata) EXCEPT
                     !.read_value = BitOr(@, rxdata)]
             b == [BusWrite(BusWrite(a, "NACK"), "STOP") EXCEPT
                     !.i2c_state = "stop_comm", !.i2c_sm_busy = FALSE]
             Unblock(c) ==
               sleep_unblock_mode([c EXCEPT !.i2c_unblocks = @ + 1], EM2)
             Post(c) ==
               add_scheduled_event([c EXCEPT !.i2c_posts = @ + 1],
                                   c.scheduled_read_cb)
         IN  Then(Then(b, Unblock), Post)
    [] OTHER -> EFM_ASSERT(s, FALSE)

i2c_rxdatav_interrupt(s, rxdata) ==
  CASE s.i2c_state = "read_ms_byte" ->
         LET a == [RxRead(BusWrite(s, "CLEARTX"), rxdata) EXCEPT
                     !.read_value = rxdata * 256]
         IN  [BusWrite(a, "ACK") EXCEPT !.i2c_state = "read_ls_byte"]
    [] s.i2c_state = "read_ls_byte" ->
         LET a == [RxRead(BusWrite(s, "CLEARTX"), rxdata) EXCEPT
                     !.read_value = BitOr(@, rxdata)]
         IN  [BusWrite(BusWrite(a, "NACK"), "STOP") EXCEPT
                !.i2c_state = "stop_comm"]
    [] OTHER -> EFM_ASSERT(s, FALSE)

\* one handler, by the flag it serves
I2cHandler(s, f, rxdata) ==
  CASE f = "START" -> i2c_start_interrupt(Took(s, f))
    [] f = "ACK" -> i2c_ack_interrupt(Took(s, f))
    [] f = "NACK" -> i2c_nack_interrupt(Took(s, f))
    [] f = "MSTOP" -> i2c_mstop_interrupt(Took(s, f))
    [] f = "RXDATAV" -> i2c_rxdatav_interrupt(Took(s, f), rxdata)

RECURSIVE I2cDispatch(_, _, _, _)
\* the if chain of I2Cn_IRQHandler from its i-th test on
I2cDispatch(s, flag_state, rxdata, i) ==
  IF i > Len(I2C_FLAGS) \/ s.fatal THEN s
  ELSE IF I2C_FLAGS[i] \in flag_state
       THEN I2cDispatch(I2cHandler(s, I2C_FLAGS[i], rxdata), flag_state,
                        rxdata, i + 1)
       ELSE I2cDispatch(s, flag_state, rxdata, i + 1)

\* raised is the peripheral's IF register; a stop condition on the bus
\* leaves the peripheral idle
I2C_IRQHandler(s, raised, rxdata) ==
  LET flag_state == raised \cap I2C_IEN
      hw == IF "MSTOP" \in raised THEN [s EXCEPT !.i2c_hw_idle = TRUE] ELSE s
  IN  I2cDispatch(hw, flag_state, rxdata, 1)

\* the peripheral has sent the stop condition that the read_ls_byte handler
\* commanded, and its MSTOP interrupt has not been served yet
I2cStopOnBus(s) == [s EXCEPT !.i2c_hw_idle = TRUE]

----------------------------------------------------------------------------
(* leuart.c: the transmit state machine *)

LEUART_STATES == {"idle", "send_data", "active_trans", "end_comm"}

\* leuart_open: tx_done_evt = leuart_settings->tx_done_evt
tx_done_evt == 2 ^ (EventBits - 1)

\* TXDATA writes one transmission is followed through
TxCap == CSIZE + 1

\* strcpy(out, string): the bytes of string, then its terminating 0
Strcpy(out, string) ==
  [i \in 0 .. (OUTPUT_SIZE - 1) |->
     IF i < Len(string) THEN string[i + 1]
     ELSE IF i = Len(string) THEN 0
     ELSE out[i]]

\* a variant of leuart_start that takes no sleep hold
LeuartStartWithoutHold(s, string, string_len) ==
  [s EXCEPT !.tx_log = <<>>, !.tx_ops = <<>>,
            !.le_em_pre = s.lowest_energy_mode[LEUART_TX_EM],
            !.le_posts = 0, !.le_unblocks = 0,
            !.sm_state = "idle",
            !.sm_count = 0,
            !.sm_output = Strcpy(@, string),
            !.sm_str_length = string_len,
            !.sm_busy = TRUE,
            !.leuart_ien = {"TXBL"}]

leuart_start(s, string, string_len) ==
  LET New(b) ==
        [b EXCEPT !.tx_log = <<>>, !.tx_ops = <<>>,
                  !.le_em_pre = s.lowest_energy_mode[LEUART_TX_EM],
                  !.le_posts = 0, !.le_unblocks = 0]
      Block(b) == sleep_block_mode(b, LEUART_TX_EM)
      Body(b) ==
        [b EXCEPT !.sm_state = "idle",
                  !.sm_count = 0,
                  !.sm_output = Strcpy(@, string),
                  !.sm_str_length = string_len,
                  !.sm_busy = TRUE,
                  !.leuart_ien = {"TXBL"}]
  IN  Then(Then(New(s), Block), Body)

\* sm.leuart->TXDATA = sm.output[sm.count]; sm.count++;
SendByte(s) ==
  [s EXCEPT !.tx_log = Append(@, s.sm_output[s.sm_count]),
            !.sm_count = @ + 1]

\* sm.count == (sm.str_length - 1), in uint32_t arithmetic: for a str_length
\* of 0 (or a negative string_len converted to uint32_t) the right-hand side
\* is above every count the model follows (TxCap)
LastByteNext(s) ==
  s.sm_str_length >= 1 /\ s.sm_count = s.sm_str_length - 1

\* a variant of the TXBL handler that ignores TXBL once the last byte is out
TxblIgnoredWhenLate(s) ==
  CASE s.sm_state = "idle" ->
         [SendByte(s) EXCEPT !.sm_state = "send_data"]
    [] s.sm_state = "send_data" ->
         IF LastByteNext(s)
         THEN [SendByte(s) EXCEPT
                 !.leuart_ien = (@ \ {"TXBL"}) \cup {"TXC"},
                 !.tx_ops = @ \o <<"IEN-TXBL", "IEN+TXC">>,
                 !.sm_state = "active_trans"]
         ELSE [SendByte(s) EXCEPT !.sm_state = "send_data"]
    [] OTHER -> s

leuart0_txbl_interrupt(s) ==
  CASE s.sm_state = "idle" ->
         [SendByte(s) EXCEPT !.sm_state = "send_data"]
    [] s.sm_state = "send_data" ->
         IF LastByteNext(s)
         THEN [SendByte(s) EXCEPT
                 !.leuart_ien = (@ \ {"TXBL"}) \cup {"TXC"},
                 !.tx_ops = @ \o <<"IEN-TXBL", "IEN+TXC">>,
                 !.sm_state = "active_trans"]
         ELSE [SendByte(s) EXCEPT !.sm_state = "send_data"]
    [] OTHER -> EFM_ASSERT(s, FALSE)

\* a variant of the TXC handler that completes on the first TXC
TxcSingleStage(s) ==
  CASE s.sm_state \in {"active_trans", "end_comm"} ->
         LET a == [s EXCEPT !.sm_state = "end_comm",
                            !.leuart_ien = @ \ {"TXC"},
                            !.tx_ops = Append(@, "IEN-TXC"),
                            !.sm_busy = FALSE]
             Unblock(b) ==
               sleep_unblock_mode([b EXCEPT !.le_unblocks = @ + 1],
                                  LEUART_TX_EM)
             Post(b) ==
               add_scheduled_event([b EXCEPT !.le_posts = @ + 1], tx_done_evt)
         IN  Then(Then(a, Unblock), Post)
    [] OTHER -> EFM_ASSERT(s, FALSE)

leuart0_txc_interrupt(s) ==
  CASE s.sm_state = "active_trans" ->
         [s EXCEPT !.sm_state = "end_comm",
                   !.tx_ops = Append(@, "IFS=TXC")]
    [] s.sm_state = "end_comm" ->
         LET a == [s EXCEPT !.leuart_ien = @ \ {"TXC"},
                            !.tx_ops = Append(@, "IEN-TXC"),
                            !.sm_busy = FALSE]
             Unblock(b) ==
               sleep_unblock_mode([b EXCEPT !.le_unblocks = @ + 1],
                                  LEUART_TX_EM)
             Post(b) ==
               add_scheduled_event([b EXCEPT !.le_posts = @ + 1], tx_done_evt)
         IN  Then(Then(a, Unblock), Post)
    [] OTHER -> EFM_ASSERT(s, FALSE)

\* raised is LEUART0->IF
LEUART0_IRQHandler(s, raised) ==
  LET interrupt_flags == raised \cap s.leuart_ien
      Txbl(b) ==
        IF "TXBL" \in interrupt_flags THEN leuart0_txbl_interrupt(b) ELSE b
      Txc(b) ==
        IF "TXC" \in interrupt_flags THEN leuart0_txc_interrupt(b) ELSE b
  IN  Then(Txbl(s), Txc)

\* leuart_tx_busy(HM10_LEUART0)
leuart_tx_busy(s) == s.sm_busy

----------------------------------------------------------------------------
(* ble.c: the ring buffer *)

size_mask == CSIZE - 1

ble_circ_init(s) == [s EXCEPT !.read_ptr = 0, !.write_ptr = 0]

\* the value is returned as a uint8_t
ble_circ_space(s) ==
  IF s.write_ptr >= s.read_ptr
  THEN (CSIZE - (s.write_ptr - s.read_ptr)) % 256
  ELSE (s.read_ptr - s.write_ptr) % 256

update_circ_wrtindex(s, update_by) ==
  [s EXCEPT !.write_ptr = BitAnd(@ + update_by, size_mask)]

update_circ_readindex(s, update_by) ==
  [s EXCEPT !.read_ptr = BitAnd(@ + update_by, size_mask)]

RECURSIVE PushBytes(_, _, _, _)
\* the for loop of ble_circ_push from index i on (string[i] is string[i+1] here)
PushBytes(buf, wp, string, i) ==
  IF i >= Len(string) THEN buf
  ELSE PushBytes([buf EXCEPT ![BitAnd(wp + i + 1, size_mask)] = string[i + 1]],
                 wp, string, i + 1)

ble_circ_push(s, string) ==
  LET string_len == Len(string) + 1
      n == [s EXCEPT !.pushes = @ + 1]
      a == IF ble_circ_space(n) < string_len THEN EFM_ASSERT(n, FALSE) ELSE n
      Body(b) ==
        LET hdr == [b.cbuf EXCEPT ![b.write_ptr] = string_len % 256]
            c == [b EXCEPT !.cbuf = PushBytes(hdr, b.write_ptr, string, 0),
                           !.queued = Append(@, string)]
        IN  update_circ_wrtindex(c, string_len)
  IN  Then(a, Body)

\* ble_circ_push up to its first store: the space test
ble_circ_push_enter(s, string) ==
  LET string_len == Len(string) + 1
      n == [s EXCEPT !.pushes = @ + 1]
      a == IF ble_circ_space(n) < string_len THEN EFM_ASSERT(n, FALSE) ELSE n
      Body(b) == [b EXCEPT !.push_pc = 0, !.push_str = string,
                           !.push_base = b.cbuf]
  IN  Then(a, Body)

\* a variant of the stores of ble_circ_push that moves the write cursor right
\* after the length byte
PushStoreCursorEarly(s) ==
  LET string_len == Len(s.push_str) + 1
      i == s.push_pc - 1
  IN  IF s.push_pc = 0
      THEN update_circ_wrtindex(
             [s EXCEPT !.cbuf[s.write_ptr] = string_len % 256, !.push_pc = 1],
             string_len)
      ELSE IF i < string_len - 1
      THEN [s EXCEPT !.cbuf[BitAnd(s.write_ptr + CSIZE - string_len + i + 1,
                                   size_mask)] = s.push_str[i + 1],
                     !.push_pc = @ + 1]
      ELSE [s EXCEPT !.queued = Append(@, s.push_str),
                     !.push_pc = -1, !.push_str = <<>>, !.push_base = <<>>]

\* a variant of the stores of ble_circ_push whose length byte is strlen(string)
PushStorePayloadLength(s) ==
  LET string_len == Len(s.push_str) + 1
      i == s.push_pc - 1
  IN  IF s.push_pc = 0
      THEN [s EXCEPT !.cbuf[s.write_ptr] = (string_len - 1) % 256,
                     !.push_pc = 1]
      ELSE IF i < string_len - 1
      THEN [s EXCEPT !.cbuf[BitAnd(s.write_ptr + i + 1, size_mask)] =
                       s.push_str[i + 1],
                     !.push_pc = @ + 1]
      ELSE update_circ_wrtindex(
             [s EXCEPT !.queued = Append(@, s.push_str),
                       !.push_pc = -1, !.push_str = <<>>, !.push_base = <<>>],
             string_len)

\* the next store of the ble_circ_push in progress: the length byte, then
\* string[i] for i = push_pc - 1, then the write cursor
ble_circ_push_store(s) ==
  LET string_len == Len(s.push_str) + 1
      i == s.push_pc - 1
  IN  IF s.push_pc = 0
      THEN [s EXCEPT !.cbuf[s.write_ptr] = string_len % 256, !.push_pc = 1]
      ELSE IF i < string_len - 1
      THEN [s EXCEPT !.cbuf[BitAnd(s.write_ptr + i + 1, size_mask)] =
                       s.push_str[i + 1],
                     !.push_pc = @ + 1]
      ELSE update_circ_wrtindex(
             [s EXCEPT !.queued = Append(@, s.push_str),
                       !.push_pc = -1, !.push_str = <<>>, !.push_base = <<>>],
             string_len)

RECURSIVE PopBytes(_, _, _, _)
\* the first for loop of ble_circ_pop from index i on: print_str[i .. n-1]
PopBytes(buf, rp, n, i) ==
  IF i >= n THEN <<>>
  ELSE <<buf[BitAnd(rp + i + 1, size_mask)]>> \o PopBytes(buf, rp, n, i + 1)

\* what ble_circ_pop does once its two early returns are passed
PopRecord(s, test, stack) ==
  LET str_length == s.cbuf[s.read_ptr]
      print_str == PopBytes(s.cbuf, s.read_ptr, str_length - 1, 0)
      a == IF test
           THEN [s EXCEPT !.result_str = print_str]
           ELSE leuart_start(s, print_str \o stack, str_length - 1)
  IN  [a EXCEPT !.read_ptr = BitAnd(@ + str_length, size_mask),
                !.pop_ret = FALSE]

\* a variant of ble_circ_pop without the test for an empty buffer
PopWithoutEmptyTest(s, test, stack) ==
  IF s.sm_busy THEN [s EXCEPT !.pop_ret = TRUE]
  ELSE PopRecord(s, test, stack)

\* a variant of ble_circ_pop without the test for a busy transmitter
PopWithoutBusyTest(s, test, stack) ==
  IF s.read_ptr = s.write_ptr THEN [s EXCEPT !.pop_ret = TRUE]
  ELSE PopRecord(s, test, stack)

\* stack is what lies behind print_str up to the next 0 byte: print_str has no
\* terminator, and leuart_start copies it with strcpy
ble_circ_pop(s, test, stack) ==
  IF leuart_tx_busy(s) THEN [s EXCEPT !.pop_ret = TRUE]
  ELSE IF s.read_ptr = s.write_ptr THEN [s EXCEPT !.pop_ret = TRUE]
  ELSE
    LET str_length == s.cbuf[s.read_ptr]
        print_str == PopBytes(s.cbuf, s.read_ptr, str_length - 1, 0)
        a == IF test
             THEN [s EXCEPT !.result_str = print_str]
             ELSE leuart_start(s, print_str \o stack, str_length - 1)
        Rest(b) ==
          [update_circ_readindex(b, str_length) EXCEPT
             !.pop_ret = FALSE,
             !.queued = IF @ = <<>> THEN @ ELSE Tail(@)]
    IN  Then(a, Rest)

ble_write(s, string, stack) ==
  LET Pop(b) == ble_circ_pop(b, FALSE, stack)
  IN  Then(ble_circ_push(s, string), Pop)

\* a variant of the tx-done handler that pops without asking the transmitter
TxDoneCbWithoutBusyTest(s, stack) ==
  LET a == EFM_ASSERT(s, BitAnd(tx_done_evt, get_scheduled_events(s)) # 0)
      Remove(b) == remove_scheduled_event(b, tx_done_evt)
      Pop(b) == PopWithoutBusyTest(b, FALSE, stack)
  IN  Then(Then(a, Remove), Pop)

\* app.c: the handler of the tx-done event
scheduled_ble_tx_done_cb(s, stack) ==
  LET a == EFM_ASSERT(s, BitAnd(tx_done_evt, get_scheduled_events(s)) # 0)
      Remove(b) == remove_scheduled_event(b, tx_done_evt)
      Pop(b) == ble_circ_pop(b, FALSE, stack)
  IN  Then(Then(a, Remove), Pop)

----------------------------------------------------------------------------
(* The state after app_peripheral_setup's opens: zeroed statics, then       *)
(* scheduler_open, sleep_open, i2c_open, leuart_open and ble_circ_init      *)

Zeroed ==
  [fatal |-> FALSE, op |-> "open",
   lowest_energy_mode |-> [i \in Modes |-> 0],
   entered_em |-> -1, event_scheduled |-> 0,
   i2c_state |-> "start_comm", i2c_sm_busy |-> FALSE, i2c_read |-> FALSE,
   i2c_hw_idle |-> TRUE, scheduled_read_cb |-> 1,
   read_value |-> 0, i2c_trace |-> <<>>,
   i2c_em2_pre |-> 0, i2c_posts |-> 0, i2c_unblocks |-> 0, i2c_bus |-> <<>>,
   i2c_rx |-> <<>>,
   sm_state |-> "idle", sm_busy |-> FALSE, sm_count |-> 0,
   sm_str_length |-> 0, sm_output |-> [i \in 0 .. (OUTPUT_SIZE - 1) |-> 0],
   leuart_ien |-> {}, tx_log |-> <<>>, tx_ops |-> <<>>,
   le_em_pre |-> 0, le_posts |-> 0, le_unblocks |-> 0,
   cbuf |-> [i \in 0 .. (CSIZE - 1) |-> 0], read_ptr |-> 0, write_ptr |-> 0,
   result_str |-> <<>>, pop_ret |-> FALSE, queued |-> <<>>, pushes |-> 0,
   cb_event |-> 0, cb_pc |-> "none", pending_posts |-> [e \in Events |-> 0],
   accepted |-> <<>>, transmitted |-> <<>>,
   push_pc |-> -1, push_str |-> <<>>, push_base |-> <<>>,
   irq_masked |-> FALSE, main_pc |-> "idle",
   main_op |-> [fn |-> "none", arg |-> 0, preempted |-> FALSE],
   main_reg |-> 0]

Opened == ble_circ_init(sleep_open(scheduler_open(Zeroed)))

Init ==
  /\ fatal = Opened.fatal
  /\ op = Opened.op
  /\ lowest_energy_mode = Opened.lowest_energy_mode
  /\ entered_em = Opened.entered_em
  /\ event_scheduled = Opened.event_scheduled
  /\ i2c_state = Opened.i2c_state
  /\ i2c_sm_busy = Opened.i2c_sm_busy
  /\ i2c_read = Opened.i2c_read
  /\ i2c_hw_idle = Opened.i2c_hw_idle
  /\ scheduled_read_cb = Opened.scheduled_read_cb
  /\ read_value = Opened.read_value
  /\ i2c_trace = Opened.i2c_trace
  /\ i2c_em2_pre = Opened.i2c_em2_pre
  /\ i2c_posts = Opened.i2c_posts
  /\ i2c_unblocks = Opened.i2c_unblocks
  /\ i2c_bus = Opened.i2c_bus
  /\ i2c_rx = Opened.i2c_rx
  /\ sm_state = Opened.sm_state
  /\ sm_busy = Opened.sm_busy
  /\ sm_count = Opened.sm_count
  /\ sm_str_length = Opened.sm_str_length
  /\ sm_output = Opened.sm_output
  /\ leuart_ien = Opened.leuart_ien
  /\ tx_log = Opened.tx_log
  /\ tx_ops = Opened.tx_ops
  /\ le_em_pre = Opened.le_em_pre
  /\ le_posts = Opened.le_posts
  /\ le_unblocks = Opened.le_unblocks
  /\ cbuf = Opened.cbuf
  /\ read_ptr = Opened.read_ptr
  /\ write_ptr = Opened.write_ptr
  /\ result_str = Opened.result_str
  /\ pop_ret = Opened.pop_ret
  /\ queued = Opened.queued
  /\ pushes = Opened.pushes
  /\ cb_event = Opened.cb_event
  /\ cb_pc = Opened.cb_pc
  /\ pending_posts = Opened.pending_posts
  /\ accepted = Opened.accepted
  /\ transmitted = Opened.transmitted
  /\ push_pc = Opened.push_pc
  /\ push_str = Opened.push_str
  /\ push_base = Opened.push_base
  /\ irq_masked = Opened.irq_masked
  /\ main_pc = Opened.main_pc
  /\ main_op = Opened.main_op
  /\ main_reg = Opened.main_reg

\* one entry point, named name, ran from the current state and left state s
Ran(name, s) == ~fatal /\ Commit([s EXCEPT !.op = name])

----------------------------------------------------------------------------
(* Inputs *)

\* the string of L bytes b+1, b+2, ..., b+L
Msg(L, b) == [i \in 1 .. L |-> b + i]

\* strings handed to leuart_start by its direct callers
Strings == {Msg(L, b) : L \in 1 .. MaxStr, b \in {64, 96}}

\* lengths of the strings handed to ble_write and ble_circ_push: the shortest,
\* half the buffer, and the longest that fit an empty buffer
MsgLens == {1, 2, CSIZE \div 2, CSIZE - 2, CSIZE - 1}

Messages == {Msg(L, 64) : L \in MsgLens} \cup {Msg(2, 96)}

\* what may lie behind print_str on the stack, up to the next 0 byte
Stacks == {<<>>, <<33>>}

----------------------------------------------------------------------------
(* Actions: the application writes strings, the transmitter's interrupts are *)
(* served one at a time, the main loop dispatches the tx-done event          *)

AppWrite ==
  \E m \in Messages, stack \in Stacks :
    /\ pushes < MaxPush
    /\ LET r == ble_write(Cur, m, stack)
       IN  Ran("ble_write",
               [r EXCEPT !.accepted = IF r.fatal THEN @ ELSE Append(@, m)])

\* the peripheral raises TXBL while TXBL is enabled and TXC while TXC is
\* enabled; a transmission is complete when its handler clears sm_busy
LeuartStep ==
  /\ leuart_ien # {}
  /\ sm_count < TxCap
  /\ LET r == LEUART0_IRQHandler(Cur, leuart_ien)
     IN  Ran("LEUART0_IRQHandler",
             [r EXCEPT !.transmitted =
                         IF sm_busy /\ ~r.sm_busy /\ ~r.fatal
                         THEN Append(@, r.tx_log) ELSE @])

\* the main loop calls the handler when the event is posted
TxDoneCb ==
  \E stack \in Stacks :
    /\ BitAnd(tx_done_evt, event_scheduled) # 0
    /\ Ran("scheduled_ble_tx_done_cb", scheduled_ble_tx_done_cb(Cur, stack))

NextBle == AppWrite \/ LeuartStep \/ TxDoneCb

SpecBle == Init /\ [][NextBle]_vars

\* the LEUART interrupts keep being served and the main loop keeps running
SpecBleFair ==
  /\ Init
  /\ [][NextBle]_vars
  /\ WF_vars(LeuartStep)
  /\ WF_vars(TxDoneCb)

----------------------------------------------------------------------------
(* Actions: sleep arbiter *)

SleepBlockOf(EM) == Ran("sleep_block_mode", sleep_block_mode(Cur, EM))

SleepBlock == \E EM \in Modes : SleepBlockOf(EM)

SleepUnblockOf(EM) == Ran("sleep_unblock_mode", sleep_unblock_mode(Cur, EM))

SleepUnblock == \E EM \in Modes : SleepUnblockOf(EM)

EnterSleep == Ran("enter_sleep", enter_sleep(Cur))

NextSleep == SleepBlock \/ SleepUnblock \/ EnterSleep

SpecSleep == Init /\ [][NextSleep]_vars

----------------------------------------------------------------------------
(* Actions: event scheduler *)

\* an interrupt handler posts event
SchedAddOf(event) ==
  /\ pending_posts[event] < MaxPosts
  /\ Ran("add_scheduled_event",
         add_scheduled_event([Cur EXCEPT !.pending_posts[event] = @ + 1],
                             event))

SchedAdd == \E event \in Events : SchedAddOf(event)

CbEnter ==
  \E event \in Events :
    /\ cb_pc = "none"
    /\ Ran("scheduled_cb_assert", scheduled_cb_assert(Cur, event))

CbClear ==
  /\ cb_pc = "asserted"
  /\ Ran("remove_scheduled_event", scheduled_cb_remove(Cur))

CbReturn ==
  /\ cb_pc = "cleared"
  /\ Ran("scheduled_cb_return", scheduled_cb_return(Cur))

NextSched == SchedAdd \/ CbEnter \/ CbClear \/ CbReturn

SpecSched == Init /\ [][NextSched]_vars

----------------------------------------------------------------------------
(* Actions: every handler of app.c, called with its event pending or not *)

CheckedEnter ==
  \E event \in CheckedEvents :
    /\ cb_pc = "none"
    /\ Ran("scheduled_cb_assert", scheduled_cb_assert(Cur, event))

CompEnter ==
  \E event \in CompEvents :
    /\ cb_pc = "none"
    /\ Ran("remove_scheduled_event", scheduled_comp_cb_remove(Cur, event))

CompAssert ==
  /\ cb_pc = "removed"
  /\ Ran("scheduled_comp_cb_assert", scheduled_comp_cb_assert(Cur))

NextHandlers ==
  SchedAdd \/ CheckedEnter \/ CbClear \/ CbReturn \/ CompEnter \/ CompAssert

SpecHandlers == Init /\ [][NextHandlers]_vars

----------------------------------------------------------------------------
(* Actions: bus transaction state machine *)

\* the completion events the application passes to i2c_start
I2cCallbacks == {e \in Events : e <= 2}

I2cStart == \E cb \in I2cCallbacks : Ran("i2c_start", i2c_start(Cur, cb))

\* the peripheral raises interrupts once a transaction has been started;
\* RXDATA is read only by the RXDATAV handler
I2cIrq ==
  \E raised \in (SUBSET I2C_IEN) \ {{}} :
  \E rxdata \in IF "RXDATAV" \in raised THEN RxBytes ELSE {0} :
    /\ ~(i2c_hw_idle /\ i2c_state = "start_comm")
    /\ Len(i2c_trace) + Cardinality(raised) <= MaxTrace
    /\ Ran("I2C_IRQHandler", I2C_IRQHandler(Cur, raised, rxdata))

StopOnBus ==
  /\ i2c_state = "stop_comm"
  /\ ~i2c_hw_idle
  /\ Ran("stop_on_bus", I2cStopOnBus(Cur))

NextI2C == I2cStart \/ I2cIrq \/ StopOnBus

SpecI2C == Init /\ [][NextI2C]_vars

\* the main loop may call enter_sleep() between any two of these steps
NextI2CSleep == NextI2C \/ EnterSleep

SpecI2CSleep == Init /\ [][NextI2CSleep]_vars

\* interrupts served one flag at a time, followed past the completion of a
\* transaction: the handlers stay callable in stop_comm with the peripheral
\* idle, where a further MSTOP can be served
MaxServed == 7

I2cIrqOne ==
  \E flag \in I2C_IEN :
  \E rxdata \in IF flag = "RXDATAV" THEN RxBytes ELSE {0} :
    /\ ~(i2c_hw_idle /\ i2c_state = "start_comm")
    /\ Len(i2c_trace) < MaxServed
    /\ Ran("I2C_IRQHandler", I2C_IRQHandler(Cur, {flag}, rxdata))

NextI2CStop == I2cStart \/ I2cIrqOne \/ StopOnBus

SpecI2CStop == Init /\ [][NextI2CStop]_vars

----------------------------------------------------------------------------
(* Actions: main-loop calls statement by statement, preempted by interrupt  *)
(* handlers that post events and take or release sleep holds                *)

\* the modes the peripherals hold: EM2 by i2c.c, LEUART_TX_EM by leuart.c
HeldModes == {EM2, LEUART_TX_EM}

MainCallOf(fn, arg) ==
  /\ main_pc = "idle"
  /\ Ran(fn, main_call(Cur, fn, arg))

MainCall ==
  \/ \E event \in Events :
       MainCallOf("add_scheduled_event", event)
       \/ MainCallOf("remove_scheduled_event", event)
  \/ \E EM \in HeldModes :
       MainCallOf("sleep_block_mode", EM)
       \/ MainCallOf("sleep_unblock_mode", EM)
  \/ MainCallOf("enter_sleep", 0)

MainStep ==
  /\ main_pc # "idle"
  /\ Ran(main_op.fn, main_step(Cur))

\* the handler has run inside the main-loop call in progress, if there is one
Preempting(s) ==
  IF s.main_pc = "idle" THEN s ELSE [s EXCEPT !.main_op.preempted = TRUE]

\* an interrupt is served only while PRIMASK is clear; its handler runs to
\* its end before the main loop goes on
IsrAddOf(event) ==
  /\ ~irq_masked
  /\ Ran("isr:add_scheduled_event",
         Preempting(add_scheduled_event(Cur, event)))

IsrBlockOf(EM) ==
  /\ ~irq_masked
  /\ Ran("isr:sleep_block_mode", Preempting(sleep_block_mode(Cur, EM)))

IsrUnblockOf(EM) ==
  /\ ~irq_masked
  /\ Ran("isr:sleep_unblock_mode", Preempting(sleep_unblock_mode(Cur, EM)))

Isr ==
  \/ \E event \in Events : IsrAddOf(event)
  \/ \E EM \in HeldModes : IsrBlockOf(EM) \/ IsrUnblockOf(EM)

NextPreempt == MainCall \/ MainStep \/ Isr

SpecPreempt == Init /\ [][NextPreempt]_vars

----------------------------------------------------------------------------
(* Actions: one bus transaction after another with a device that answers *)

Count(seq, x) == Cardinality({i \in DOMAIN seq : seq[i] = x})

\* a start condition was commanded and its START flag has not been served
StartPending == Count(i2c_bus, "START") > Count(i2c_trace, "START")

\* a transaction was requested and its MSTOP has not been served
I2cInFlight == ~(i2c_hw_idle /\ (i2c_state = "start_comm" \/ i2c_unblocks >= 1))

\* the interrupts of the longest transaction with MaxRetry NACKs
DevTraceCap == 8 + 2 * MaxRetry

DevServe(raised, rxdata) ==
  /\ I2cInFlight
  /\ Len(i2c_trace) < DevTraceCap
  /\ Ran("I2C_IRQHandler", I2C_IRQHandler(Cur, raised, rxdata))

\* the application requests a transaction when none is in flight
DevRequest ==
  /\ ~I2cInFlight
  /\ \E cb \in I2cCallbacks : Ran("i2c_start", i2c_start(Cur, cb))

\* the start condition has gone out on the bus
DevStartSent == StartPending /\ DevServe({"START"}, 0)

\* the device acknowledges the address or the command byte
DevAck ==
  /\ ~StartPending
  /\ i2c_state \in {"start_comm", "send_cmd", "read_request"}
  /\ DevServe({"ACK"}, 0)

\* the device is not ready for the read request yet
DevNack ==
  /\ ~StartPending
  /\ i2c_state = "read_request"
  /\ Count(i2c_trace, "NACK") < MaxRetry
  /\ DevServe({"NACK"}, 0)

\* the device supplies a data byte
DevData ==
  /\ i2c_state \in {"read_ms_byte", "read_ls_byte"}
  /\ \E rxdata \in RxBytes : DevServe({"RXDATAV"}, rxdata)

\* the stop condition has gone out on the bus
DevStop ==
  /\ i2c_state = "stop_comm"
  /\ DevServe({"MSTOP"}, 0)

NextI2CDevice ==
  DevRequest \/ DevStartSent \/ DevAck \/ DevNack \/ DevData \/ DevStop

\* every interrupt the peripheral has raised is delivered, and the device
\* does not NACK for ever
SpecI2CFair ==
  /\ Init
  /\ [][NextI2CDevice]_vars
  /\ WF_vars(DevStartSent)
  /\ WF_vars(DevAck)
  /\ WF_vars(DevData)
  /\ WF_vars(DevStop)

----------------------------------------------------------------------------
(* Actions: transmit state machine *)

LeuartStart ==
  \E str \in Strings : Ran("leuart_start", leuart_start(Cur, str, Len(str)))

LeuartIrq ==
  \E raised \in (SUBSET {"TXBL", "TXC"}) \ {{}} :
    /\ raised \cap leuart_ien # {}
    /\ sm_count < TxCap
    /\ Ran("LEUART0_IRQHandler", LEUART0_IRQHandler(Cur, raised))

NextLeuart == LeuartStart \/ LeuartIrq

SpecLeuart == Init /\ [][NextLeuart]_vars

\* the main loop may call enter_sleep() between any two of these steps
NextLeuartSleep == NextLeuart \/ EnterSleep

SpecLeuartSleep == Init /\ [][NextLeuartSleep]_vars

\* the two handlers entered in any state, as a protocol violation would
TxblInterrupt ==
  /\ sm_count < TxCap
  /\ Ran("leuart0_txbl_interrupt", leuart0_txbl_interrupt(Cur))

TxcInterrupt == Ran("leuart0_txc_interrupt", leuart0_txc_interrupt(Cur))

NextLeuartSM == LeuartStart \/ TxblInterrupt \/ TxcInterrupt

SpecLeuartSM == Init /\ [][NextLeuartSM]_vars

----------------------------------------------------------------------------
(* Actions: ring buffer *)

BlePushOf(m) ==
  /\ pushes < MaxPush
  /\ Ran("ble_circ_push", ble_circ_push(Cur, m))

BlePush == \E m \in Messages : BlePushOf(m)

BlePopOf(test, stack) == Ran("ble_circ_pop", ble_circ_pop(Cur, test, stack))

BlePop == \E test \in BOOLEAN, stack \in Stacks : BlePopOf(test, stack)

BleWriteOf(m, stack) ==
  /\ pushes < MaxPush
  /\ Ran("ble_write", ble_write(Cur, m, stack))

BleWrite == \E m \in Messages, stack \in Stacks : BleWriteOf(m, stack)

RECURSIVE LeuartServe(_)
\* the interrupts of one transmission served back to back: the peripheral
\* raises TXBL while TXBL is enabled and TXC while TXC is enabled
LeuartServe(s) ==
  IF s.fatal \/ s.leuart_ien = {} \/ s.sm_count >= TxCap THEN s
  ELSE LeuartServe(LEUART0_IRQHandler(s, s.leuart_ien))

LeuartRun ==
  /\ leuart_ien # {}
  /\ sm_count < TxCap
  /\ Ran("LEUART0_IRQHandler", LeuartServe(Cur))

NextRing == BlePush \/ BlePop \/ BleWrite \/ LeuartRun

SpecRing == Init /\ [][NextRing]_vars

----------------------------------------------------------------------------
(* Actions: ble_circ_push one store at a time, with pops in between *)

\* the strings pushed one store at a time: a short one, half the buffer, and
\* the longest that fits an empty buffer
PushStrings == {Msg(L, 64) : L \in {2, CSIZE \div 2, CSIZE - 1}}

PushEnter ==
  \E m \in PushStrings :
    /\ pushes < MaxPush
    /\ push_pc = -1
    /\ Ran("ble_circ_push", ble_circ_push_enter(Cur, m))

PushStore ==
  /\ push_pc >= 0
  /\ Ran("ble_circ_push_store", ble_circ_push_store(Cur))

\* a pop between two stores, for the test harness or for the transmitter
PushPop == \E test \in BOOLEAN : BlePopOf(test, <<>>)

NextPush == PushEnter \/ PushStore \/ PushPop \/ LeuartRun

SpecPush == Init /\ [][NextPush]_vars

----------------------------------------------------------------------------
(* Claims *)

Max(a, b) == IF a >= b THEN a ELSE b

\* the least element of a nonempty set of integers
Least(S) == CHOOSE x \in S : \A y \in S : x <= y

\* C1: the read sequence i2c_start, ACK, ACK, ACK, data-available,
\* data-available, stop-confirmed leaves the state machine not busy, the EM2
\* hold counter at its value before the request with one release made, and
\* the completion event posted once.
ReadSequence == <<"ACK", "ACK", "ACK", "RXDATAV", "RXDATAV", "MSTOP">>

C1_ReadSequenceCompletes ==
  (~fatal /\ i2c_trace = ReadSequence) =>
    /\ ~i2c_sm_busy
    /\ lowest_energy_mode[EM2] = i2c_em2_pre
    /\ i2c_unblocks = 1
    /\ i2c_posts = 1
    /\ BitAnd(event_scheduled, scheduled_read_cb) = scheduled_read_cb

C1_Witness ==
  /\ ~fatal
  /\ op = "I2C_IRQHandler"
  /\ i2c_trace = ReadSequence
  /\ i2c_state = "stop_comm"

\* C2: a ble_write of a message that fits, into an empty buffer with the
\* transmitter idle, hands exactly the message's bytes to the transmitter
\* and leaves ble_circ_space() as it was before the push.
DeliveredNow == [i \in 1 .. sm_str_length |-> sm_output[i - 1]]

C2_RoundTrip ==
  [][\A m \in Messages, stack \in Stacks :
       ( /\ BleWriteOf(m, stack)
         /\ ~sm_busy
         /\ read_ptr = write_ptr
         /\ queued = <<>>
         /\ Len(m) + 1 <= ble_circ_space(Cur) )
       => ( /\ ~fatal'
            /\ ~pop_ret'
            /\ sm_busy'
            /\ DeliveredNow' = m
            /\ ble_circ_space(Cur)' = ble_circ_space(Cur) )]_vars

\* C3: with every counter >= 0, current_block_energy_mode() is the
\* lowest-numbered mode whose counter is nonzero, or MAX_ENERGY_MODES - 1 if
\* all counters are zero.
C3_BlockedModeIsShallowestHeld ==
  (\A m \in Modes : lowest_energy_mode[m] >= 0) =>
    current_block_energy_mode(lowest_energy_mode) =
      IF \E m \in Modes : lowest_energy_mode[m] # 0
      THEN Least({m \in Modes : lowest_energy_mode[m] # 0})
      ELSE MAX_ENERGY_MODES - 1

C3_Witness ==
  /\ ~fatal
  /\ op = "sleep_unblock_mode"
  /\ lowest_energy_mode[EM0] = 0
  /\ lowest_energy_mode[EM1] = 0
  /\ lowest_energy_mode[EM2] > 0
  /\ lowest_energy_mode[EM3] > 0

\* C4 as stated: enter_sleep() enters the mode current_block_energy_mode()
\* returns.
C4_EntersBlockedMode ==
  op = "enter_sleep" =>
    entered_em = current_block_energy_mode(lowest_energy_mode)

\* C4 as amended: enter_sleep() enters the mode one level shallower than the
\* mode current_block_energy_mode() returns, and stays in EM0 when that is
\* EM0; it never enters the held mode itself.
C4_EntersModeAboveBlocked ==
  op = "enter_sleep" =>
    /\ entered_em = Max(EM0, current_block_energy_mode(lowest_energy_mode) - 1)
    /\ \A m \in Modes : lowest_energy_mode[m] > 0 => (entered_em < m \/ m = EM0)

C4_Witness ==
  /\ op = "enter_sleep"
  /\ lowest_energy_mode[EM0] = 0
  /\ lowest_energy_mode[EM1] = 0
  /\ lowest_energy_mode[EM2] > 0
  /\ entered_em = EM1

\* C5: every pair (state, interrupt) with the interrupt among ACK, NACK,
\* stop-confirmed and data-available that is not a listed valid transition
\* reaches the fatal assertion.
ValidTransitions ==
  {<<"start_comm", "ACK">>, <<"send_cmd", "ACK">>, <<"read_request", "ACK">>,
   <<"read_request", "NACK">>, <<"read_ms_byte", "RXDATAV">>,
   <<"read_ls_byte", "RXDATAV">>, <<"stop_comm", "MSTOP">>}

\* the first interrupt the IRQ handler of this step serves
FirstServed == i2c_trace'[Len(i2c_trace) + 1]

C5_UnexpectedInterruptIsFatal ==
  [][( /\ op' = "I2C_IRQHandler"
       /\ FirstServed # "START"
       /\ <<i2c_state, FirstServed>> \notin ValidTransitions )
     => fatal']_vars

\* C6: i2c_start reaches the fatal assertion unless the peripheral is idle
\* and the state machine is not busy.
C6_StartNeedsBothIdle ==
  [][( /\ op' = "i2c_start"
       /\ ~(i2c_hw_idle /\ ~i2c_sm_busy) )
     => fatal']_vars

\* C7: after leuart_start with a length L >= 1 the TXBL interrupts write the
\* L bytes of the message in order and nothing else, and once the L bytes
\* are written TXBL is disabled, TXC is enabled and the state is
\* active_trans (last byte sent).
C7_TxblSendsExactlyTheMessage ==
  (~fatal /\ sm_busy /\ sm_str_length >= 1) =>
    /\ Len(tx_log) <= sm_str_length
    /\ \A i \in 1 .. Len(tx_log) : tx_log[i] = sm_output[i - 1]
    /\ sm_count = Len(tx_log)
    /\ Len(tx_log) = sm_str_length =>
         /\ sm_state \in {"active_trans", "end_comm"}
         /\ leuart_ien = {"TXC"}
    /\ Len(tx_log) < sm_str_length =>
         /\ sm_state \in {"idle", "send_data"}
         /\ leuart_ien = {"TXBL"}

\* C8: the first TXC (in active_trans) only re-arms TXC and moves to
\* end_comm; the second (in end_comm) disables TXC, clears busy, releases the
\* LEUART_TX_EM hold and posts tx_done_evt; so per leuart_start there is one
\* release and one post.
C8_TwoStageCompletion ==
  ~fatal =>
    /\ le_unblocks <= 1
    /\ le_posts <= 1
    /\ (sm_state = "active_trans") =>
         /\ sm_busy
         /\ le_unblocks = 0
         /\ le_posts = 0
         /\ lowest_energy_mode[LEUART_TX_EM] = le_em_pre + 1
    /\ (sm_state = "end_comm" /\ sm_busy) =>
         /\ le_unblocks = 0
         /\ le_posts = 0
         /\ "TXC" \in leuart_ien
         /\ tx_ops = <<"IEN-TXBL", "IEN+TXC", "IFS=TXC">>
         /\ lowest_energy_mode[LEUART_TX_EM] = le_em_pre + 1
    /\ (sm_state = "end_comm" /\ ~sm_busy) =>
         /\ le_unblocks = 1
         /\ le_posts = 1
         /\ leuart_ien = {}
         /\ tx_ops = <<"IEN-TXBL", "IEN+TXC", "IFS=TXC", "IEN-TXC">>
         /\ lowest_energy_mode[LEUART_TX_EM] = le_em_pre
         /\ BitAnd(event_scheduled, tx_done_evt) = tx_done_evt

C8_Witness ==
  /\ ~fatal
  /\ op = "LEUART0_IRQHandler"
  /\ sm_state = "end_comm"
  /\ ~sm_busy
  /\ le_posts = 1

\* C9: TXBL in active_trans or end_comm, and TXC in idle or send_data, reach
\* the fatal assertion and change no transmit state, hold counter or event
\* bit.
C9_UnexpectedTxInterruptIsFatal ==
  [][( \/ /\ op' = "leuart0_txbl_interrupt"
          /\ sm_state \in {"active_trans", "end_comm"}
       \/ /\ op' = "leuart0_txc_interrupt"
          /\ sm_state \in {"idle", "send_data"} )
     => /\ fatal'
        /\ UNCHANGED <<sm_state, sm_busy, sm_count, sm_str_length, sm_output,
                       leuart_ien, tx_log, lowest_energy_mode,
                       event_scheduled>>]_vars

C9_Witness ==
  /\ fatal
  /\ op = "leuart0_txc_interrupt"
  /\ sm_state = "send_data"
  /\ sm_busy

\* C10: starting empty and with pushes only, a push succeeds when the
\* messages pushed so far and the new one take at most CSIZE bytes
\* (length + 1 each), and reaches the fatal assertion when they would take
\* more.
RECURSIVE EncodedSize(_)
EncodedSize(q) ==
  IF q = <<>> THEN 0 ELSE Len(Head(q)) + 1 + EncodedSize(Tail(q))

C10_PushFatalIffOverCapacity ==
  [][\A m \in Messages :
       (BlePushOf(m) /\ Len(queued) = pushes) =>
         (fatal' <=> EncodedSize(queued) + Len(m) + 1 > CSIZE)]_vars

\* what a pop delivered: to the test sink, or to the transmit context
Delivered(test) == IF test THEN result_str ELSE DeliveredNow

RECURSIVE Decode(_, _, _, _)
\* the records stored from cursor rp up to cursor wp, at most fuel of them
Decode(buf, rp, wp, fuel) ==
  IF rp = wp \/ fuel = 0 THEN <<>>
  ELSE <<PopBytes(buf, rp, buf[rp] - 1, 0)>>
         \o Decode(buf, BitAnd(rp + buf[rp], size_mask), wp, fuel - 1)

\* C11: a record pushed into an empty buffer so that it crosses index
\* CSIZE - 1 to 0 is returned whole and in order by the next pop, and both
\* cursors stay within 0 .. CSIZE - 1.
C11_StraddlingRecordRoundTrip ==
  [][\A test \in BOOLEAN, stack \in Stacks :
       ( /\ BlePopOf(test, stack)
         /\ op = "ble_circ_push"
         /\ ~leuart_tx_busy(Cur)
         /\ Len(queued) = 1
         /\ read_ptr + Len(queued[1]) >= CSIZE )
       => ( /\ ~pop_ret'
            /\ Delivered(test)' = queued[1]
            /\ read_ptr' \in 0 .. (CSIZE - 1)
            /\ write_ptr' \in 0 .. (CSIZE - 1) )]_vars

\* C12: ble_circ_space() is CSIZE minus the sum of (length + 1) over the
\* queued messages.
C12_SpaceIsCapacityMinusQueued ==
  ~fatal => ble_circ_space(Cur) = CSIZE - EncodedSize(queued)

\* C13: with several messages queued that fit the buffer, a pop delivers the
\* oldest one whole and leaves the later ones stored, in order.
C13_PopsInPushOrder ==
  [][\A test \in BOOLEAN, stack \in Stacks :
       ( /\ BlePopOf(test, stack)
         /\ ~leuart_tx_busy(Cur)
         /\ Len(queued) >= 2
         /\ EncodedSize(queued) <= CSIZE )
       => ( /\ ~pop_ret'
            /\ Delivered(test)' = Head(queued)
            /\ Decode(cbuf', read_ptr', write_ptr', CSIZE) = Tail(queued) )]_vars

\* C14: ble_circ_pop with no message queued returns true, delivers nothing,
\* starts no transmission and moves no cursor.
C14_PopOnEmptyDoesNothing ==
  [][\A test \in BOOLEAN, stack \in Stacks :
       (BlePopOf(test, stack) /\ queued = <<>>)
       => ( /\ pop_ret'
            /\ UNCHANGED <<cbuf, read_ptr, write_ptr, result_str, sm_state,
                           sm_busy, sm_count, sm_str_length, sm_output,
                           leuart_ien, tx_log, tx_ops, lowest_energy_mode,
                           event_scheduled>> )]_vars

C14_Witness ==
  /\ op = "ble_circ_pop"
  /\ pop_ret
  /\ queued = <<>>
  /\ ~sm_busy
  /\ read_ptr # 0
  /\ read_ptr = write_ptr

\* C15: ble_circ_pop while the transmitter is busy returns true and leaves
\* the buffer, both cursors and the transmit context as they were.
C15_PopWhileBusyDoesNothing ==
  [][\A test \in BOOLEAN, stack \in Stacks :
       (BlePopOf(test, stack) /\ leuart_tx_busy(Cur))
       => ( /\ pop_ret'
            /\ UNCHANGED <<cbuf, read_ptr, write_ptr, queued, result_str,
                           sm_state, sm_busy, sm_count, sm_str_length,
                           sm_output, leuart_ien, tx_log, tx_ops,
                           lowest_energy_mode, event_scheduled>> )]_vars

C15_Witness ==
  /\ op = "ble_circ_pop"
  /\ pop_ret
  /\ sm_busy
  /\ queued # <<>>
  /\ read_ptr # write_ptr

\* C16: sleep_unblock_mode on a mode whose counter is 0 reaches the fatal
\* assertion, and no step leaves a counter negative without the assertion
\* having fired.
C16_UnblockAtZeroIsFatal ==
  [][ /\ \A EM \in Modes :
           (SleepUnblockOf(EM) /\ lowest_energy_mode[EM] = 0) => fatal'
      /\ (\E EM \in Modes : lowest_energy_mode'[EM] < 0) => fatal' ]_vars

C16_Witness ==
  /\ fatal
  /\ op = "sleep_unblock_mode"
  /\ \E EM \in Modes : lowest_energy_mode[EM] = -1

\* C17: sleep_block_mode(EM) adds one to the counter of EM and to no other,
\* and reaches the fatal assertion exactly when the new count is not below 5:
\* four holds per mode are accepted, the fifth is not.
C17_BlockCountsAndLimits ==
  [][\A EM \in Modes :
       SleepBlockOf(EM) =>
         /\ lowest_energy_mode' =
              [lowest_energy_mode EXCEPT ![EM] = lowest_energy_mode[EM] + 1]
         /\ fatal' <=> (lowest_energy_mode[EM] + 1 > 4)]_vars

C17_Witness ==
  /\ fatal
  /\ op = "sleep_block_mode"
  /\ \E EM \in Modes : lowest_energy_mode[EM] = 5

\* C18: after add_scheduled_event(e) bit e is set in get_scheduled_events();
\* posting e when it is already pending leaves the mask as one post left it;
\* after remove_scheduled_event(e) bit e is clear, however often e was
\* posted, and no other bit has changed.
C18_PostSetsClearRemoves ==
  [][\A e \in Events :
       /\ SchedAddOf(e) =>
            /\ BitAnd(get_scheduled_events(Cur)', e) = e
            /\ BitAnd(event_scheduled, e) = e =>
                 event_scheduled' = event_scheduled
            /\ \A o \in Events \ {e} :
                 BitAnd(event_scheduled', o) = BitAnd(event_scheduled, o)
       /\ (CbClear /\ cb_event = e) =>
            /\ BitAnd(get_scheduled_events(Cur)', e) = 0
            /\ \A o \in Events \ {e} :
                 BitAnd(event_scheduled', o) = BitAnd(event_scheduled, o)]_vars

C18_Witness ==
  /\ op = "add_scheduled_event"
  /\ \E e \in Events :
       /\ pending_posts[e] >= 2
       /\ BitAnd(event_scheduled, e) = e

\* C19: if an event is posted after its handler has cleared it and before
\* the handler returns, the event is pending when the handler returns.
C19_RetriggerNotLost ==
  [][(CbReturn /\ pending_posts[cb_event] > 0) =>
       BitAnd(event_scheduled', cb_event) = cb_event]_vars

C19_Witness ==
  /\ op = "scheduled_cb_return"
  /\ cb_pc = "none"
  /\ pending_posts[cb_event] > 0
  /\ BitAnd(event_scheduled, cb_event) = cb_event

\* a transaction has been started and its stop-confirmed interrupt has not
\* been handled
I2cOutstanding ==
  /\ ~fatal
  /\ ~(i2c_hw_idle /\ i2c_state = "start_comm")
  /\ i2c_unblocks = 0

\* C20: while a bus transaction is outstanding the EM2 hold counter is at
\* least 1, and an enter_sleep() made meanwhile enters neither EM2 nor a
\* deeper mode.
C20_HoldDuringTransaction ==
  I2cOutstanding =>
    /\ lowest_energy_mode[EM2] >= 1
    /\ op = "enter_sleep" => entered_em < EM2

C20_Witness ==
  /\ I2cOutstanding
  /\ op = "enter_sleep"
  /\ entered_em = EM1
  /\ i2c_state = "read_ls_byte"

\* C21: while a serial transmission is outstanding (sm_busy, from
\* leuart_start to the second TXC) the LEUART_TX_EM hold counter is at least
\* 1, and an enter_sleep() made meanwhile enters neither LEUART_TX_EM nor a
\* deeper mode.
C21_HoldDuringTransmission ==
  (~fatal /\ sm_busy) =>
    /\ lowest_energy_mode[LEUART_TX_EM] >= 1
    /\ op = "enter_sleep" => entered_em < LEUART_TX_EM

C21_Witness ==
  /\ ~fatal
  /\ sm_busy
  /\ op = "enter_sleep"
  /\ entered_em = LEUART_TX_EM - 1
  /\ sm_state = "end_comm"

\* the interrupts the IRQ handler of this step serves
ServedNow == {i2c_trace'[i] : i \in (Len(i2c_trace) + 1) .. Len(i2c_trace')}

\* C22: in stop_comm every interrupt other than MSTOP (START, ACK, NACK,
\* RXDATAV) reaches the fatal assertion.
C22_StopStateRejectsOthers ==
  [][( /\ op' = "I2C_IRQHandler"
       /\ i2c_state = "stop_comm"
       /\ ServedNow \ {"MSTOP"} # {} )
     => fatal']_vars

C22_Witness ==
  /\ fatal
  /\ op = "I2C_IRQHandler"
  /\ i2c_state = "stop_comm"
  /\ i2c_trace # <<>>
  /\ i2c_trace[Len(i2c_trace)] = "START"

\* C25: from the return of i2c_start until MSTOP has been handled the state
\* machine reports busy (already before the first interrupt is served), and
\* once MSTOP has been handled it reports not busy.
C25_BusyFromRequestToStop ==
  /\ I2cOutstanding => i2c_sm_busy
  /\ (~fatal /\ i2c_unblocks >= 1) => ~i2c_sm_busy

\* the hold or the completion event of the bus transaction changes in this step
I2cReleasesNow ==
  \/ i2c_unblocks' > i2c_unblocks
  \/ i2c_posts' > i2c_posts
  \/ lowest_energy_mode'[EM2] < lowest_energy_mode[EM2]
  \/ event_scheduled' # event_scheduled

\* C27: the EM2 hold is released and the completion event is posted only by
\* an MSTOP handled in stop_comm, by no other (state, interrupt) transition,
\* and that handler does both.
C27_StopIsTheOnlyExit ==
  [][I2cReleasesNow =>
       /\ op' = "I2C_IRQHandler"
       /\ i2c_state = "stop_comm"
       /\ "MSTOP" \in ServedNow
       /\ i2c_unblocks' = i2c_unblocks + 1
       /\ ~fatal' => i2c_posts' = i2c_posts + 1]_vars

C27_Witness ==
  /\ ~fatal
  /\ op = "I2C_IRQHandler"
  /\ i2c_unblocks = 1
  /\ i2c_posts = 1
  /\ lowest_energy_mode[EM2] = i2c_em2_pre
  /\ i2c_trace[Len(i2c_trace)] = "MSTOP"

\* C28: a NACK served in read_request writes the repeated start and the
\* address with the read bit again and stays in read_request, with the hold
\* counters, the event set and the busy flag unchanged and without a fatal
\* assertion, however many NACKs came before.
C28_NackRetriesReadRequest ==
  [][( /\ op' = "I2C_IRQHandler"
       /\ ~fatal
       /\ i2c_state = "read_request"
       /\ ServedNow = {"NACK"} )
     => /\ ~fatal'
        /\ i2c_state' = "read_request"
        /\ i2c_bus' = i2c_bus \o <<"CLEARTX", "START", "ADDR+R">>
        /\ UNCHANGED <<lowest_energy_mode, event_scheduled, i2c_sm_busy,
                       i2c_posts, i2c_unblocks>>]_vars

C28_Witness ==
  /\ ~fatal
  /\ i2c_state = "read_request"
  /\ i2c_trace = <<"ACK", "ACK", "NACK", "NACK", "NACK", "NACK">>

C29_TransactionTerminates ==
  /\ (I2cInFlight /\ ~fatal) ~>
       (fatal \/ ( /\ ~I2cInFlight
                   /\ i2c_state = "stop_comm"
                   /\ ~i2c_sm_busy
                   /\ i2c_unblocks = 1 ))
  /\ [][(i2c_state = "read_request" /\ "ACK" \notin ServedNow)
         => (i2c_state' = "read_request" /\ ~fatal')]_vars

C29_Witness ==
  /\ ~fatal
  /\ ~I2cInFlight
  /\ ~i2c_sm_busy
  /\ i2c_state = "stop_comm"
  /\ Count(i2c_trace, "NACK") = MaxRetry
  /\ i2c_trace[Len(i2c_trace)] = "MSTOP"

\* C23: under any interleaving of ble_write calls, runs of the tx-done
\* handler and LEUART interrupts, leuart_start (the only caller of
\* sleep_block_mode(LEUART_TX_EM)) is invoked only while the transmit state
\* machine is not busy, so at most one transmission holds LEUART_TX_EM.
C23_OneTransmissionInFlight ==
  [][(lowest_energy_mode'[LEUART_TX_EM] > lowest_energy_mode[LEUART_TX_EM])
     => /\ ~sm_busy
        /\ lowest_energy_mode[LEUART_TX_EM] = 0
        /\ op' \in {"ble_write", "scheduled_ble_tx_done_cb"}]_vars

C23_Witness ==
  /\ ~fatal
  /\ op = "scheduled_ble_tx_done_cb"
  /\ sm_busy
  /\ tx_log = <<>>
  /\ Len(transmitted) = 1
  /\ Len(accepted) = 3

IsPrefix(a, b) == Len(a) <= Len(b) /\ \A i \in 1 .. Len(a) : a[i] = b[i]

\* C24: every string ble_write accepted, also one written while the
\* transmitter was busy, is in the end transmitted exactly once and in the
\* order written, when the LEUART interrupts keep being served and the main
\* loop dispatches every posted tx-done event.
C24_AcceptedIsTransmitted ==
  /\ [](~fatal => IsPrefix(transmitted, accepted))
  /\ <>[](fatal \/ transmitted = accepted)

\* what a pop would do had the push in progress not stored anything yet
PopOnBase(test, stack) ==
  ble_circ_pop([Cur EXCEPT !.cbuf = push_base], test, stack)

\* C26: ble_circ_push stores the length byte and every payload byte before
\* it moves the write cursor: a pop made between two stores of a push does
\* what it would do on the buffer without the new record (it delivers
\* nothing of it), and when the cursor moves the complete record is in the
\* buffer.
C26_PopNeverSeesPartialRecord ==
  [][/\ \A test \in BOOLEAN :
          (BlePopOf(test, <<>>) /\ push_pc >= 0) =>
            LET b == PopOnBase(test, <<>>)
            IN  /\ pop_ret' = b.pop_ret
                /\ result_str' = b.result_str
                /\ read_ptr' = b.read_ptr
                /\ write_ptr' = write_ptr
                /\ sm_busy' = b.sm_busy
                /\ sm_str_length' = b.sm_str_length
                /\ sm_output' = b.sm_output
     /\ (push_pc >= 0 /\ write_ptr' # write_ptr) =>
          /\ push_pc = Len(push_str) + 1
          /\ cbuf[write_ptr] = Len(push_str) + 1
          /\ PopBytes(cbuf, write_ptr, Len(push_str), 0) = push_str]_vars

C26_Witness ==
  /\ ~fatal
  /\ op = "ble_circ_pop"
  /\ push_pc = 2
  /\ Len(push_str) >= 2
  /\ pop_ret
  /\ ~sm_busy
  /\ read_ptr = write_ptr
  /\ read_ptr # 0

\* C31: after a completed two-byte read the destination holds
\* (high byte << 8) | low byte, the high byte being the one read from RXDATA
\* in read_ms_byte and the low byte the one read in read_ls_byte, whatever
\* the destination held before.
C31_ReadValueIsHighLow ==
  (~fatal /\ ~I2cInFlight /\ i2c_unblocks = 1) =>
    /\ Len(i2c_rx) = 2
    /\ read_value = i2c_rx[1] * 256 + i2c_rx[2]
    /\ read_value = BitOr(i2c_rx[1] * 256, i2c_rx[2])

C31_Witness ==
  /\ ~fatal
  /\ ~I2cInFlight
  /\ i2c_unblocks = 1
  /\ i2c_rx = <<1, 255>>
  /\ read_value = 511
  /\ event_scheduled = 3

\* the step in which a push moves the write cursor over its record
PushCompletes == push_pc >= 0 /\ push_pc' = -1 /\ ~fatal'

\* the step is a pop that delivers a record
PopDelivers(test) == BlePopOf(test, <<>>) /\ ~pop_ret' /\ ~fatal'

\* C32 as stated: a record is a length byte of value N followed by exactly N
\* payload bytes, and a pop advances the read cursor by N + 1.
C32_PrefixCountsPayload ==
  [][/\ PushCompletes =>
          /\ cbuf[write_ptr] = Len(push_str)
          /\ write_ptr' = BitAnd(write_ptr + cbuf[write_ptr] + 1, size_mask)
     /\ \A test \in BOOLEAN :
          PopDelivers(test) =>
            /\ Len(Delivered(test)') = cbuf[read_ptr]
            /\ read_ptr' = BitAnd(read_ptr + cbuf[read_ptr] + 1, size_mask)]_vars

\* C32 as the code has it: the length byte counts itself, so a record is a
\* length byte of value N followed by exactly N - 1 payload bytes, and a pop
\* delivers those N - 1 bytes and advances the read cursor by N.
C32_PrefixCountsRecord ==
  [][/\ PushCompletes =>
          /\ cbuf[write_ptr] = Len(push_str) + 1
          /\ PopBytes(cbuf, write_ptr, cbuf[write_ptr] - 1, 0) = push_str
          /\ write_ptr' = BitAnd(write_ptr + cbuf[write_ptr], size_mask)
     /\ \A test \in BOOLEAN :
          PopDelivers(test) =>
            /\ Delivered(test)' =
                 PopBytes(cbuf, read_ptr, cbuf[read_ptr] - 1, 0)
            /\ Len(Delivered(test)') = cbuf[read_ptr] - 1
            /\ read_ptr' = BitAnd(read_ptr + cbuf[read_ptr], size_mask)]_vars

C32_Witness ==
  /\ ~fatal
  /\ op = "ble_circ_pop"
  /\ ~pop_ret
  /\ pushes = 2
  /\ read_ptr = write_ptr
  /\ Len(result_str) = CSIZE \div 2

\* the EMU_Enter call of enter_sleep is executed in this step
SleepPrimitiveNow ==
  main_op.fn = "enter_sleep" /\ main_pc = "decided" /\ main_pc' = "slept"

\* C33 as stated: enter_sleep masks the interrupts only while it reads the
\* hold table and decides; the EMU_Enter call is executed with the interrupts
\* unmasked.
C33_SleepsUnmasked ==
  [][/\ (main_op.fn = "enter_sleep" /\ main_pc = "critical") => irq_masked
     /\ SleepPrimitiveNow => ~irq_masked]_vars

\* C33 as the code has it: enter_sleep masks the interrupts before it reads
\* the hold table and unmasks them only after the EMU_Enter call has
\* returned, so the mode entered is the one decided from the table as it is
\* at the call.
C33_SleepsMasked ==
  [][/\ (main_op.fn = "enter_sleep" /\ main_pc = "critical") => irq_masked
     /\ SleepPrimitiveNow =>
          /\ irq_masked
          /\ entered_em' = EnteredMode(lowest_energy_mode)]_vars

C33_Witness ==
  /\ ~fatal
  /\ main_op.fn = "enter_sleep"
  /\ main_pc = "slept"
  /\ irq_masked
  /\ entered_em = EM1
  /\ lowest_energy_mode[EM2] = 2

\* the store of a main-loop read-modify-write is executed in this step
RmwStoreNow == main_pc = "loaded" /\ main_pc' = "stored"

\* C34: scheduler and sleep-arbiter mutations are atomic with respect to
\* interrupts: whatever handlers post events or take and release holds while
\* a main-loop call is in progress, its store applies the operation to the
\* value that is in memory at the store, so no handler's update is lost: a
\* remove clears exactly its bit and keeps the bits posted meanwhile, an add
\* sets exactly its bit, block and unblock change the counter by exactly one.
C34_MutationsAreAtomic ==
  [][RmwStoreNow =>
       /\ main_op.fn = "remove_scheduled_event" =>
            /\ event_scheduled' = BitClear(event_scheduled, main_op.arg)
            /\ lowest_energy_mode' = lowest_energy_mode
       /\ main_op.fn = "add_scheduled_event" =>
            /\ event_scheduled' = BitOr(event_scheduled, main_op.arg)
            /\ lowest_energy_mode' = lowest_energy_mode
       /\ main_op.fn = "sleep_block_mode" =>
            /\ lowest_energy_mode' =
                 [lowest_energy_mode EXCEPT ![main_op.arg] = @ + 1]
            /\ event_scheduled' = event_scheduled
       /\ main_op.fn = "sleep_unblock_mode" =>
            /\ lowest_energy_mode' =
                 [lowest_energy_mode EXCEPT ![main_op.arg] = @ - 1]
            /\ event_scheduled' = event_scheduled]_vars

\* event 2 was pending, handlers have posted event 1 and taken an EM2 hold
\* inside remove_scheduled_event(2), and the remove has stored
C34_Witness ==
  /\ ~fatal
  /\ main_op = [fn |-> "remove_scheduled_event", arg |-> 2,
                preempted |-> TRUE]
  /\ main_pc = "stored"
  /\ event_scheduled = 1
  /\ lowest_energy_mode[EM2] = 1

\* a handler is entered in this step: its first statement is executed
HandlerEntered == cb_pc = "none" /\ cb_pc' # "none"

\* the step clears exactly the bit of the handler's event
ClearsOwnBitOnly ==
  event_scheduled' = BitClear(event_scheduled, cb_event')

\* a bit is cleared only by a remove_scheduled_event of the handler of its
\* own event
ClearedOnlyByOwnHandler ==
  \A e \in Events :
    (BitAnd(event_scheduled, e) = e /\ BitAnd(event_scheduled', e) = 0) =>
      (op' = "remove_scheduled_event" /\ cb_event' = e)

\* C35 as stated: every handler first asserts that its own bit is pending
\* (changing no bit), then clears exactly that bit, and a bit is cleared by
\* nothing else.
C35_EveryHandlerChecksFirst ==
  [][/\ HandlerEntered =>
          /\ event_scheduled' = event_scheduled
          /\ fatal' <=> BitAnd(event_scheduled, cb_event') = 0
     /\ (cb_pc = "asserted" /\ cb_pc' = "cleared") => ClearsOwnBitOnly
     /\ ClearedOnlyByOwnHandler]_vars

\* C35 as the code has it: the handlers of the events other than
\* LETIMER0_COMP0_CB and LETIMER0_COMP1_CB first assert that their own bit
\* is pending, then clear exactly that bit; the handlers of the two COMP
\* events clear exactly their own bit without a check, pending or not, and
\* then reach EFM_ASSERT(false); a bit is cleared by nothing else.
C35_CheckedHandlersCheckFirst ==
  [][/\ (HandlerEntered /\ cb_event' \in CheckedEvents) =>
          /\ event_scheduled' = event_scheduled
          /\ fatal' <=> BitAnd(event_scheduled, cb_event') = 0
     /\ (cb_pc = "asserted" /\ cb_pc' = "cleared") => ClearsOwnBitOnly
     /\ (HandlerEntered /\ cb_event' \in CompEvents) =>
          /\ ~fatal'
          /\ cb_pc' = "removed"
          /\ ClearsOwnBitOnly
     /\ (cb_pc = "removed" /\ op' = "scheduled_comp_cb_assert") => fatal'
     /\ ClearedOnlyByOwnHandler]_vars

C35_Witness ==
  /\ fatal
  /\ op = "scheduled_comp_cb_assert"
  /\ cb_event = LETIMER0_COMP1_CB
  /\ pending_posts[LETIMER0_COMP0_CB] = 1
  /\ event_scheduled = LETIMER0_COMP0_CB

----------------------------------------------------------------------------
(* app.c and Si7021.c: the periodic measurement. The timer underflow posts  *)
(* LETIMER0_UF_CB, its handler requests the temperature, the handler of the *)
(* temperature's completion event requests the humidity                    *)

LETIMER0_UF_CB == 4

\* the completion events of the two reads: two further bits of the event word
SI7021_READ_CB == 8
SI7021_RH_CB == 16

\* the strings sprintf leaves in temp_str and rh_str
AppStrings == {Msg(1, 64), Msg(2, 64)}

si7021_read(s, si7021_read_cb) == i2c_start(s, si7021_read_cb)

scheduled_letimer0_uf_cb(s) ==
  LET a == EFM_ASSERT(s, BitAnd(get_scheduled_events(s), LETIMER0_UF_CB) # 0)
      Remove(b) == remove_scheduled_event(b, LETIMER0_UF_CB)
      Read(b) == si7021_read(b, SI7021_READ_CB)
  IN  Then(Then(a, Remove), Read)

\* the handler up to its ble_write(temp_str)
scheduled_temp_cb_write(s, temp_str, stack) ==
  LET a == EFM_ASSERT(s, BitAnd(SI7021_READ_CB, get_scheduled_events(s)) # 0)
      Remove(b) == remove_scheduled_event(b, SI7021_READ_CB)
      Write(b) == ble_write(b, temp_str, stack)
  IN  Then(Then(a, Remove), Write)

scheduled_temp_cb(s, temp_str, stack) ==
  LET Read(b) == si7021_read(b, SI7021_RH_CB)
  IN  Then(scheduled_temp_cb_write(s, temp_str, stack), Read)

scheduled_rh_cb(s, rh_str, stack) ==
  LET a == EFM_ASSERT(s, BitAnd(SI7021_RH_CB, get_scheduled_events(s)) # 0)
      Remove(b) == remove_scheduled_event(b, SI7021_RH_CB)
      Write(b) == ble_write(b, rh_str, stack)
  IN  Then(Then(a, Remove), Write)

\* the timer's underflow interrupt posts its event
LetimerUf ==
  Ran("LETIMER0_IRQHandler", add_scheduled_event(Cur, LETIMER0_UF_CB))

\* the main loop calls a handler when its event is posted
UfCb ==
  /\ BitAnd(event_scheduled, LETIMER0_UF_CB) # 0
  /\ Ran("scheduled_letimer0_uf_cb", scheduled_letimer0_uf_cb(Cur))

TempCbOf(temp_str, stack) ==
  /\ BitAnd(event_scheduled, SI7021_READ_CB) # 0
  /\ pushes < MaxPush
  /\ Ran("scheduled_temp_cb", scheduled_temp_cb(Cur, temp_str, stack))

TempCb == \E temp_str \in AppStrings, stack \in Stacks : TempCbOf(temp_str, stack)

RhCb ==
  \E rh_str \in AppStrings, stack \in Stacks :
    /\ BitAnd(event_scheduled, SI7021_RH_CB) # 0
    /\ pushes < MaxPush
    /\ Ran("scheduled_rh_cb", scheduled_rh_cb(Cur, rh_str, stack))

\* the transmitter's interrupts are not served in these behaviours: the
\* strings written stay in the ring and in the transmit context
\* the device answers each transaction as in NextI2CDevice
NextApp ==
  \/ LetimerUf \/ UfCb \/ TempCb \/ RhCb
  \/ DevStartSent \/ DevAck \/ DevNack \/ DevData \/ DevStop \/ StopOnBus

SpecApp == Init /\ [][NextApp]_vars

----------------------------------------------------------------------------
(* The sleep holds of the bus state machine *)

\* C36: the sleep_unblock_mode(EM2) calls of the bus state machine never
\* exceed the sleep_block_mode(EM2) calls of i2c_start, whatever interrupts
\* are served, a further MSTOP after the completion included: the EM2 hold
\* counter, which only i2c.c changes here, never drops below its value
\* before the request, and one request is released at most once.
C36_HoldsBalanced ==
  /\ lowest_energy_mode[EM2] >= 0
  /\ i2c_unblocks <= 1

----------------------------------------------------------------------------
(* The cursors of the ring and the messages it holds *)

\* C37: in every state reached by successful pushes and pops the read cursor
\* equals the write cursor exactly when no message is queued.
C37_CursorsEqualIffEmpty ==
  ~fatal => ((read_ptr = write_ptr) <=> (queued = <<>>))

----------------------------------------------------------------------------
(* The application's requests of the bus *)

\* scheduled_temp_cb called with temp_str reaches its si7021_read
TempReads(temp_str, stack) ==
  /\ TempCbOf(temp_str, stack)
  /\ ~scheduled_temp_cb_write(Cur, temp_str, stack).fatal

\* C38: whatever the interleaving of the timer underflow, the completion
\* events and the bus interrupts, a handler calls si7021_read (i2c_start)
\* only when the previous bus transaction has reached stop-confirmed.
C38_RequestsOnlyAfterStop ==
  [][(UfCb \/ \E temp_str \in AppStrings, stack \in Stacks :
                TempReads(temp_str, stack))
       => ~I2cInFlight]_vars

----------------------------------------------------------------------------
(* The interrupts the transmitter has enabled *)

\* C39: from leuart_start until the last byte of the message has been
\* written only TXBL is enabled; from the last byte until the second TXC
\* only TXC is enabled; after the completion neither is enabled.
C39_TransmitEnables ==
  (~fatal /\ sm_str_length >= 1) =>
    /\ (sm_busy /\ Len(tx_log) < sm_str_length) => leuart_ien = {"TXBL"}
    /\ (sm_busy /\ Len(tx_log) >= sm_str_length) => leuart_ien = {"TXC"}
    /\ ~sm_busy => leuart_ien = {}

====
